---------------------------- MODULE Spec2Model ----------------------------
(***************************************************************************)
(* Lottery Lab: the draw store, the text parser, the validator, the two    *)
(* importers, the raw-file archive of the MBNet fetch, and the repository  *)
(* and frequency queries, as one state machine.                            *)
(*                                                                         *)
(* Text is modelled as it is processed: a str is a sequence of one-char    *)
(* strings, and strip / split / int / strptime / join work on characters.  *)
(* A date is the tuple <<year, month, day>>, compared as Python compares   *)
(* datetime.date values.                                                   *)
(***************************************************************************)
EXTENDS Integers, Sequences, FiniteSets, TLC

VARIABLES
    draws,      \* the rows of table "draws" (committed)
    today,      \* date.today()
    now,        \* datetime.now(UTC), in whole seconds
    raw,        \* RAW_DIR: file name -> bytes, the mbnet_*.txt archive
    update_log, \* the rows of .data/update_log.csv, none while it does not exist
    call        \* the call in progress: its arguments and what it returned

vars == <<draws, today, now, raw, update_log, call>>

-----------------------------------------------------------------------------
(* Bounds of the model *)

\* longest list of lines handed to one import or parse call
MaxLines == 2
\* largest limit and offset handed to DrawRepository.list
MaxPage == 2
\* largest window_days handed to calculate_frequency
MaxWindow == 3
\* last second of the clock
MaxClock == 3

-----------------------------------------------------------------------------
(* Generic helpers on sequences and sets of integers *)

MinOf(S) == CHOOSE x \in S : \A y \in S : x <= y

MaxOf(S) == CHOOSE x \in S : \A y \in S : x >= y

SeqsUpTo(S, n) == UNION {[1..k -> S] : k \in 0..n}

Range(s) == {s[i] : i \in 1..Len(s)}

\* str < str, as Python compares strings of ASCII characters
Ord(c) ==
    CASE c = "\t" -> 9
      [] c = "\n" -> 10
      [] c = "\r" -> 13
      [] c = " " -> 32
      [] c = "#" -> 35
      [] c = "+" -> 43
      [] c = "," -> 44
      [] c = "-" -> 45
      [] c = "." -> 46
      [] c = "0" -> 48
      [] c = "1" -> 49
      [] c = "2" -> 50
      [] c = "3" -> 51
      [] c = "4" -> 52
      [] c = "5" -> 53
      [] c = "6" -> 54
      [] c = "7" -> 55
      [] c = "8" -> 56
      [] c = "9" -> 57
      [] c = "T" -> 84
      [] c = "Z" -> 90
      [] c = "_" -> 95
      [] c = "b" -> 98
      [] c = "d" -> 100
      [] c = "e" -> 101
      [] c = "i" -> 105
      [] c = "l" -> 108
      [] c = "m" -> 109
      [] c = "n" -> 110
      [] c = "t" -> 116
      [] c = "x" -> 120
      [] OTHER -> 97

RECURSIVE StrLess(_, _)
StrLess(a, b) ==
    IF b = <<>> THEN FALSE
    ELSE IF a = <<>> THEN TRUE
    ELSE IF Ord(Head(a)) # Ord(Head(b)) THEN Ord(Head(a)) < Ord(Head(b))
    ELSE StrLess(Tail(a), Tail(b))

-----------------------------------------------------------------------------
(* Python built-ins used by the parser and the validator.  An operation    *)
(* that can raise returns [exc, v]: exc is "none" or the exception class.  *)

Digits == <<"0", "1", "2", "3", "4", "5", "6", "7", "8", "9">>

IsDigit(c) == c \in Range(Digits)

DigitVal(c) == (CHOOSE i \in 1..10 : Digits[i] = c) - 1

IsSpace(c) == c \in {" ", "\t", "\n", "\r"}

Between(s, keep) ==
    IF keep = {} THEN <<>> ELSE SubSeq(s, MinOf(keep), MaxOf(keep))

\* str.strip()
strip(s) == Between(s, {i \in 1..Len(s) : ~IsSpace(s[i])})

CutAt(s, at) ==
    IF at = {} THEN <<s>>
    ELSE <<SubSeq(s, 1, MinOf(at) - 1), SubSeq(s, MinOf(at) + 1, Len(s))>>

\* str.split(sep, 1): one part when sep is absent, else two
split_once(s, sep) == CutAt(s, {i \in 1..Len(s) : s[i] = sep})

\* str.split(sep): every part, empty ones included
RECURSIVE split(_, _)
SplitRest(parts, sep) ==
    IF Len(parts) = 1 THEN parts ELSE <<parts[1]>> \o split(parts[2], sep)

split(s, sep) == SplitRest(split_once(s, sep), sep)

RECURSIVE DigitsValue(_)
DigitsValue(s) ==
    IF s = <<>> THEN 0
    ELSE 10 * DigitsValue(SubSeq(s, 1, Len(s) - 1)) + DigitVal(s[Len(s)])

AllDigits(s) == s # <<>> /\ \A i \in 1..Len(s) : IsDigit(s[i])

ValueError == [exc |-> "ValueError", v |-> 0]

Value(v) == [exc |-> "none", v |-> v]

IntSigned(sign, body) ==
    IF AllDigits(body)
    THEN Value(IF sign = "-" THEN 0 - DigitsValue(body) ELSE DigitsValue(body))
    ELSE ValueError

IntStripped(t) ==
    IF t # <<>> /\ t[1] \in {"+", "-"} THEN IntSigned(t[1], Tail(t))
    ELSE IntSigned("+", t)

\* int(str): surrounding whitespace and a sign are accepted, anything else
\* raises ValueError
int(s) == IntStripped(strip(s))

\* str(int)
RECURSIVE NatStr(_)
NatStr(n) ==
    IF n < 10 THEN <<Digits[n + 1]>> ELSE NatStr(n \div 10) \o <<Digits[(n % 10) + 1]>>

str(n) == IF n < 0 THEN <<"-">> \o NatStr(0 - n) ELSE NatStr(n)

\* sep.join(parts)
RECURSIVE join(_, _)
join(sep, parts) ==
    IF parts = <<>> THEN <<>>
    ELSE IF Len(parts) = 1 THEN parts[1]
    ELSE parts[1] \o sep \o join(sep, Tail(parts))

-----------------------------------------------------------------------------
(* datetime.date *)

IsLeap(y) == (y % 4 = 0 /\ y % 100 # 0) \/ y % 400 = 0

DaysInMonth(y, m) ==
    IF m = 2 THEN (IF IsLeap(y) THEN 29 ELSE 28)
    ELSE IF m \in {4, 6, 9, 11} THEN 30 ELSE 31

\* date <= date
DateLE(a, b) ==
    \/ a[1] < b[1]
    \/ a[1] = b[1] /\ a[2] < b[2]
    \/ a[1] = b[1] /\ a[2] = b[2] /\ a[3] <= b[3]

DateLT(a, b) == DateLE(a, b) /\ a # b

\* date + timedelta(days=1)
NextDay(d) ==
    IF d[3] < DaysInMonth(d[1], d[2]) THEN <<d[1], d[2], d[3] + 1>>
    ELSE IF d[2] < 12 THEN <<d[1], d[2] + 1, 1>>
    ELSE <<d[1] + 1, 1, 1>>

\* date - timedelta(days=1)
PrevDay(d) ==
    IF d[3] > 1 THEN <<d[1], d[2], d[3] - 1>>
    ELSE IF d[2] > 1 THEN <<d[1], d[2] - 1, DaysInMonth(d[1], d[2] - 1)>>
    ELSE <<d[1] - 1, 12, 31>>

\* date + timedelta(days=n), n of either sign
RECURSIVE AddDays(_, _)
AddDays(d, n) ==
    IF 1 <= d[3] + n /\ d[3] + n <= DaysInMonth(d[1], d[2]) THEN <<d[1], d[2], d[3] + n>>
    ELSE IF n > 0
        THEN AddDays(NextDay(<<d[1], d[2], DaysInMonth(d[1], d[2])>>),
                     n - (DaysInMonth(d[1], d[2]) - d[3] + 1))
    ELSE AddDays(PrevDay(<<d[1], d[2], 1>>), n + d[3])

Pad(s, w) == [i \in 1..(w - Len(s)) |-> "0"] \o s

\* date.isoformat(): 'YYYY-MM-DD'
isoformat(d) ==
    Pad(NatStr(d[1]), 4) \o <<"-">> \o Pad(NatStr(d[2]), 2) \o <<"-">> \o Pad(NatStr(d[3]), 2)

StrptimeDate(y, m, d) ==
    IF d \in 1..31 /\ m \in 1..12 /\ y >= 1 /\ d <= DaysInMonth(y, m)
    THEN Value(<<y, m, d>>)
    ELSE ValueError

StrptimeParts(p) ==
    IF /\ Len(p) = 3
       /\ AllDigits(p[1]) /\ Len(p[1]) <= 2
       /\ AllDigits(p[2]) /\ Len(p[2]) <= 2
       /\ AllDigits(p[3]) /\ Len(p[3]) = 4
    THEN StrptimeDate(DigitsValue(p[3]), DigitsValue(p[2]), DigitsValue(p[1]))
    ELSE ValueError

\* datetime.strptime(s, "%d.%m.%Y").date(): the day and the month are one or
\* two digits, the year is four; a text that does not match, or that names
\* no calendar day, raises ValueError
strptime(s) == StrptimeParts(split(s, "."))

-----------------------------------------------------------------------------
(* The text feed: lines as the MBNet file and the tests write them *)

\* '%d.%m.%Y' of a date
dmy(d) ==
    Pad(NatStr(d[3]), 2) \o <<".">> \o Pad(NatStr(d[2]), 2) \o <<".">> \o Pad(NatStr(d[1]), 4)

\* '<integer>. <dd.mm.yyyy> <comma-separated integers>', with `lead` before
\* the index and `gap` between the dot and the date (one space in the feed)
FormatLine(n, d, nums, lead, gap) ==
    lead \o str(n) \o <<".">> \o gap \o dmy(d) \o <<" ">>
         \o join(<<",">>, [i \in 1..Len(nums) |-> str(nums[i])])

Line(n, d, nums) == FormatLine(n, d, nums, <<>>, <<" ">>)

\* the spacings the parser is written to tolerate around the index
Leads == {<<>>, <<" ", " ">>}

Gaps == {<<" ">>, <<>>, <<" ", " ">>}

\* the days of the model's calendar: the turn of a year
Day1 == <<1999, 12, 31>>

Day2 == <<2000, 1, 1>>

Day3 == <<2000, 1, 2>>

Calendar == <<Day1, Day2, Day3>>

NumsA == <<1, 2, 3, 4, 5, 6>>

NumsB == <<7, 8, 9, 10, 11, 49>>

\* what a well-formed line may carry: the parser checks no range and no count
ParseValues ==
    {<<1, Day1, NumsA>>, <<2, Day2, NumsB>>, <<0 - 1, Day3, <<0, 50>>>>, <<10, Day2, <<7>>>>}

WellFormedLines ==
    {Line(v[1], v[2], v[3]) : v \in ParseValues}
      \cup {FormatLine(1, Day1, NumsA, <<" ", " ">>, <<" ">>),
            FormatLine(2, Day2, NumsB, <<>>, <<>>),
            FormatLine(2, Day2, NumsB, <<>>, <<" ", " ">>)}

MalformedLines == {
    \* blank
    <<" ", " ", " ">>,
    \* comment
    <<"#", " ", "1", ".", " ", "0", "1", ".", "0", "1", ".", "2", "0", "0", "0", " ", "1", ",", "2", ",", "3", ",", "4", ",", "5", ",", "6">>,
    \* text
    <<"b", "a", "d", " ", "l", "i", "n", "e">>,
    \* bad date text
    <<"4", ".", " ", "b", "a", "d", "-", "d", "a", "t", "e", " ", "1", ",", "2", ",", "3", ",", "4", ",", "5", ",", "6">>,
    \* no such day
    <<"1", ".", " ", "3", "1", ".", "0", "2", ".", "2", "0", "0", "0", " ", "1", ",", "2", ",", "3", ",", "4", ",", "5", ",", "6">>,
    \* two-digit year
    <<"1", ".", " ", "0", "1", ".", "0", "1", ".", "0", "0", " ", "1", ",", "2", ",", "3", ",", "4", ",", "5", ",", "6">>,
    \* no numbers
    <<"1", ".", " ", "0", "1", ".", "0", "1", ".", "2", "0", "0", "0">>,
    \* a number that is none
    <<"1", ".", " ", "0", "1", ".", "0", "1", ".", "2", "0", "0", "0", " ", "1", ",", "2", ",", "x", ",", "4", ",", "5", ",", "6">>,
    \* an empty number
    <<"1", ".", " ", "0", "1", ".", "0", "1", ".", "2", "0", "0", "0", " ", "1", ",", "2", ",", ",", "4", ",", "5", ",", "6">>,
    \* index that is no integer
    <<"x", ".", " ", "0", "1", ".", "0", "1", ".", "2", "0", "0", "0", " ", "1", ",", "2", ",", "3", ",", "4", ",", "5", ",", "6">>,
    \* no dot after the index
    <<"1", " ", "0", "1", ".", "0", "1", ".", "2", "0", "0", "0", " ", "1", ",", "2", ",", "3", ",", "4", ",", "5", ",", "6">>,
    \* tabs between the fields
    <<"1", ".", "\t", "0", "1", ".", "0", "1", ".", "2", "0", "0", "0", "\t", "1", ",", "2", ",", "3", ",", "4", ",", "5", ",", "6">>}

ParseUniverse == WellFormedLines \cup MalformedLines

\* The lines the importers are given: records with the draw numbers 1..3 on
\* the days of the calendar, valid and invalid, and a line that is no record.
ImportUniverse ==
    {Line(1, Day1, NumsA),
     Line(2, Day2, NumsB),
     Line(3, Day2, NumsA),
     Line(2, Day3, NumsA),
     Line(3, Day2, <<1, 1, 2, 3, 4, 5>>),
     Line(3, Day2, <<1, 2, 3, 4, 5, 50>>),
     Line(3, Day1, <<0, 2, 3, 4, 5, 6>>),
     Line(3, Day1, <<1, 2, 3, 4, 5>>),
     Line(0, Day1, NumsA),
     <<"b", "a", "d", " ", "l", "i", "n", "e">>}

\* the lines that fill the table the queries read
QueryUniverse ==
    {Line(1, Day1, NumsA), Line(2, Day1, NumsB), Line(3, Day2, NumsA)}

-----------------------------------------------------------------------------
(* file_parser.py *)

ParsedDraw(n, d, nums) == [draw_number |-> n, draw_date |-> d, numbers |-> nums]

IntEach(pieces) == [i \in 1..Len(pieces) |-> int(pieces[i])]

IntCollect(vals) ==
    IF \E i \in 1..Len(vals) : vals[i].exc # "none"
    THEN ValueError
    ELSE Value([i \in 1..Len(vals) |-> vals[i].v])

\* [int(x) for x in nums_str.split(",")]: a piece that is no integer raises
\* ValueError
int_list(nums_str) == IntCollect(IntEach(split(nums_str, ",")))

\* One turn of the loop of parse_initial_txt ends in one of
\*   [kind |-> "yield", draw |-> ParsedDraw]   the line produced a record
\*   [kind |-> "skip"]                         continue
\*   [kind |-> "raise", exc |-> e]             an exception left the generator
Skip == [kind |-> "skip"]

\* a handler that catches only the exception it names, so that "except
\* Exception" lets a ValueError through
Except_exact(clause, exc) ==
    IF clause = exc THEN Skip ELSE [kind |-> "raise", exc |-> exc]

\* except <clause>: continue
Except(clause, exc) ==
    IF clause = "Exception" \/ clause = exc THEN Skip
    ELSE [kind |-> "raise", exc |-> exc]

\* numbers = [int(x) ...] / except Exception / yield
ParseNumbers(n, d, nums) ==
    IF nums.exc # "none" THEN Except("Exception", nums.exc)
    ELSE [kind |-> "yield", draw |-> ParsedDraw(n, d, nums.v)]

\* draw_date = strptime(...) / except ValueError
ParseDate(n, dt, nums_str) ==
    IF dt.exc # "none" THEN Except("ValueError", dt.exc)
    ELSE ParseNumbers(n, dt.v, int_list(nums_str))

\* date_str, nums_str = right.split(" ", 1) / except ValueError
ParseRight(n, parts) ==
    IF Len(parts) # 2 THEN Except("ValueError", "ValueError")
    ELSE ParseDate(n, strptime(parts[1]), parts[2])

\* draw_number = int(left) / except Exception; right = right.strip()
ParseIndex(idx, right) ==
    IF idx.exc # "none" THEN Except("Exception", idx.exc)
    ELSE ParseRight(idx.v, split_once(strip(right), " "))

\* left, right = line.split(".", 1) / except Exception
ParseLeftRight(parts) ==
    IF Len(parts) # 2 THEN Except("Exception", "ValueError")
    ELSE ParseIndex(int(parts[1]), parts[2])

\* if not line: continue
ParseStripped(line) ==
    IF line = <<>> THEN Skip ELSE ParseLeftRight(split_once(line, "."))

\* line = raw.strip() and the rest of the loop body
parse_line(rawline) == ParseStripped(strip(rawline))

\* parse_line, tabulated once over the lines of the model
ParsedLine ==
    [l \in ParseUniverse \cup ImportUniverse \cup QueryUniverse |-> parse_line(l)]

\* The generator, run to its end: what it yielded, in order, and the exception
\* that ended it, if any ("none": it was exhausted).
RECURSIVE parse_initial_txt(_)
ParseCons(r, rest) ==
    [exc |-> rest.exc,
     out |-> (IF r.kind = "yield" THEN <<r.draw>> ELSE <<>>) \o rest.out]

ParseNext(r, tail) ==
    IF r.kind = "raise" THEN [exc |-> r.exc, out |-> <<>>]
    ELSE ParseCons(r, parse_initial_txt(tail))

parse_initial_txt(lines) ==
    IF lines = <<>> THEN [exc |-> "none", out |-> <<>>]
    ELSE ParseNext(ParsedLine[Head(lines)], Tail(lines))

-----------------------------------------------------------------------------
(* data_validator.py, normalizer.py *)

NumberMin == 1

NumberMax == 49

NumbersPerDraw == 6

ValidationResult(ok, reason) == [ok |-> ok, reason |-> reason]

\* validate_draw without the check of the date
validate_draw_any_date(parsed, day) ==
    IF Len(parsed.numbers) # NumbersPerDraw
        THEN ValidationResult(FALSE, "must have 6 numbers")
    ELSE IF \E i \in 1..Len(parsed.numbers) :
                ~(NumberMin <= parsed.numbers[i] /\ parsed.numbers[i] <= NumberMax)
        THEN ValidationResult(FALSE, "number out of range")
    ELSE IF Cardinality(Range(parsed.numbers)) # NumbersPerDraw
        THEN ValidationResult(FALSE, "numbers must be unique")
    ELSE IF parsed.draw_number <= 0
        THEN ValidationResult(FALSE, "draw_number must be positive")
    ELSE ValidationResult(TRUE, "None")

validate_draw(parsed, day) ==
    IF Len(parsed.numbers) # NumbersPerDraw
        THEN ValidationResult(FALSE, "must have 6 numbers")
    ELSE IF \E i \in 1..Len(parsed.numbers) :
                ~(NumberMin <= parsed.numbers[i] /\ parsed.numbers[i] <= NumberMax)
        THEN ValidationResult(FALSE, "number out of range")
    ELSE IF Cardinality(Range(parsed.numbers)) # NumbersPerDraw
        THEN ValidationResult(FALSE, "numbers must be unique")
    ELSE IF ~DateLE(parsed.draw_date, day)
        THEN ValidationResult(FALSE, "date in future")
    ELSE IF parsed.draw_number <= 0
        THEN ValidationResult(FALSE, "draw_number must be positive")
    ELSE ValidationResult(TRUE, "None")

serialize_numbers(numbers) ==
    join(<<",">>, [i \in 1..Len(numbers) |-> str(numbers[i])])

\* The labels are lower-case and without spaces already, so strip().lower()
\* and the fallback's replace(" ", "_") leave them as they are.
normalize_game_type(game_type, provider) ==
    IF game_type \in {"lotto plus", "plus", "lotto_plus"} THEN "lotto_plus"
    ELSE IF game_type \in {"lotto"} THEN "lotto"
    ELSE IF game_type \in {"mini lotto", "minilotto", "mini_lotto"} THEN "mini_lotto"
    ELSE game_type

\* frequency._parse_numbers: [int(x) for x in numbers_csv.split(",") if x]
NonEmpty(x) == x # <<>>

IntValues(pieces) == [i \in 1..Len(pieces) |-> int(pieces[i]).v]

parse_numbers(numbers_csv) == IntValues(SelectSeq(split(numbers_csv, ","), NonEmpty))

-----------------------------------------------------------------------------
(* models.py: table "draws"; ingestion.py and scheduler.py: the importers *)

Draw(draw_number, draw_date, game_type, game_provider, numbers) ==
    [draw_number |-> draw_number, draw_date |-> draw_date, game_type |-> game_type,
     game_provider |-> game_provider, numbers |-> numbers, jackpot |-> "None"]

\* draw_number is declared unique=True: an INSERT of a draw_number that the
\* table holds, or that the same flush inserts twice, fails
UniqueViolation(db, pending) ==
    \/ \E i \in 1..Len(pending) : \E r \in db : r.draw_number = pending[i].draw_number
    \/ \E i, j \in 1..Len(pending) :
          i # j /\ pending[i].draw_number = pending[j].draw_number

\* a commit that stores nothing
commit_nothing(db, pending) == [exc |-> "none", db |-> db]

\* a commit that replaces the table by the added rows
commit_replace(db, pending) == [exc |-> "none", db |-> Range(pending)]

\* session.commit(): flushes the added rows in one transaction; a failed
\* flush raises IntegrityError and the transaction is rolled back
commit(db, pending) ==
    IF UniqueViolation(db, pending)
    THEN [exc |-> "IntegrityError", db |-> db]
    ELSE [exc |-> "none", db |-> db \cup Range(pending)]

ZeroIfFalsy(m) == IF m = 0 THEN 0 ELSE m

\* select(func.max(Draw.draw_number)).scalar() or 0
max_draw_number(db) ==
    IF db = {} THEN 0 ELSE ZeroIfFalsy(MaxOf({r.draw_number : r \in db}))

CommitEvery == 500

\* per_date_count.get(key, 0)
Get(d, key) == IF key \in DOMAIN d THEN d[key] ELSE 0

\* a per_date_count that is never written
Bump_forgotten(d, key) == d

\* per_date_count[key] = idx + 1
Bump(d, key) ==
    [k \in DOMAIN d \cup {key} |-> IF k = key THEN Get(d, key) + 1 ELSE d[k]]

\* The state of a call: the table as committed so far (db), the rows added to
\* the session since the last commit (pending), per_date_count, inserted,
\* skipped, and the exception that has left the loop ("none" while it runs).
Session(db) ==
    [db |-> db, pending |-> <<>>, per_date_count |-> <<>>,
     inserted |-> 0, skipped |-> 0, exc |-> "none"]

\* Draw(...) of the accepted line: the first of its date is "lotto"
NewRow(p, idx, game_provider) ==
    Draw(p.draw_number, p.draw_date,
         normalize_game_type(IF idx = 0 THEN "lotto" ELSE "lotto_plus", game_provider),
         game_provider, serialize_numbers(p.numbers))

\* if inserted % 500 == 0: session.commit()
Committed(s, per_date_count, c) ==
    [s EXCEPT !.per_date_count = per_date_count, !.inserted = @ + 1,
              !.pending = <<>>, !.db = c.db, !.exc = c.exc]

\* a loop that commits only at its end
Added_end_only(s, per_date_count, pending, batch) ==
    [s EXCEPT !.per_date_count = per_date_count, !.inserted = @ + 1,
              !.pending = pending]

\* session.add(...); inserted += 1
Added(s, per_date_count, pending, batch) ==
    IF (s.inserted + 1) % batch = 0
    THEN Committed(s, per_date_count, commit(s.db, pending))
    ELSE [s EXCEPT !.per_date_count = per_date_count, !.inserted = @ + 1,
                   !.pending = pending]

Accept(p, s, key, game_provider, batch) ==
    Added(s, Bump(s.per_date_count, key),
          Append(s.pending, NewRow(p, Get(s.per_date_count, key), game_provider)),
          batch)

\* a loop that raises the maximum with every line it accepts
import_step_running_max(p, s, max_id, game_provider, day, batch) ==
    IF p.draw_number <= MaxOf({max_id} \cup {s.pending[i].draw_number : i \in 1..Len(s.pending)})
        THEN [s EXCEPT !.skipped = @ + 1]
    ELSE IF ~validate_draw(p, day).ok THEN [s EXCEPT !.skipped = @ + 1]
    ELSE Accept(p, s, isoformat(p.draw_date), game_provider, batch)

\* a loop that skips only the lines below the maximum
import_step_below(p, s, max_id, game_provider, day, batch) ==
    IF p.draw_number < max_id THEN [s EXCEPT !.skipped = @ + 1]
    ELSE IF ~validate_draw(p, day).ok THEN [s EXCEPT !.skipped = @ + 1]
    ELSE Accept(p, s, isoformat(p.draw_date), game_provider, batch)

\* one turn of the loop over the parsed lines
import_step(p, s, max_id, game_provider, day, batch) ==
    IF p.draw_number <= max_id THEN [s EXCEPT !.skipped = @ + 1]
    ELSE IF ~validate_draw(p, day).ok THEN [s EXCEPT !.skipped = @ + 1]
    ELSE Accept(p, s, isoformat(p.draw_date), game_provider, batch)

RECURSIVE import_loop(_, _, _, _, _, _)
import_loop(parsed, s, max_id, game_provider, day, batch) ==
    IF parsed = <<>> \/ s.exc # "none" THEN s
    ELSE import_loop(Tail(parsed),
                     import_step(Head(parsed), s, max_id, game_provider, day, batch),
                     max_id, game_provider, day, batch)

Outcome(exc, db, s, max_id) ==
    [exc |-> exc, db |-> db, inserted |-> s.inserted, skipped |-> s.skipped,
     max_existing |-> max_id]

\* The end of the with-block.  An exception of a commit or of the parser
\* leaves it: the session is closed and what it had not committed is gone.
\* Otherwise the final session.commit() runs.
ImportEnd(s, gen_exc, last, max_id) ==
    IF s.exc # "none" THEN Outcome(s.exc, s.db, s, max_id)
    ELSE IF gen_exc # "none" THEN Outcome(gen_exc, s.db, s, max_id)
    ELSE Outcome(last.exc, last.db, s, max_id)

ImportCommit(s, gen_exc, max_id) ==
    ImportEnd(s, gen_exc, commit(s.db, s.pending), max_id)

ImportRun(db, gen, max_id, game_provider, day, batch) ==
    ImportCommit(import_loop(gen.out, Session(db), max_id, game_provider, day, batch),
                 gen.exc, max_id)

\* The body shared, line for line, by import_lines and import_new_from_lines:
\* read the maximum, run the loop over the parsed lines, commit.
import_body(db, lines, game_provider, day, batch) ==
    ImportRun(db, parse_initial_txt(lines), max_draw_number(db), game_provider, day, batch)

RetLines(r) ==
    [exc |-> r.exc, db |-> r.db,
     ret |-> [inserted |-> r.inserted, skipped |-> r.skipped]]

RetNew(r) ==
    [exc |-> r.exc, db |-> r.db,
     ret |-> [inserted |-> r.inserted, skipped |-> r.skipped,
              max_existing |-> r.max_existing]]

\* ingestion.import_lines: returns {"inserted", "skipped"}
import_lines(db, lines, game_provider, day) ==
    RetLines(import_body(db, lines, game_provider, day, CommitEvery))

\* scheduler.import_new_from_lines: returns {"inserted", "skipped", "max_existing"}
import_new_from_lines(db, lines, game_provider, day) ==
    RetNew(import_body(db, lines, game_provider, day, CommitEvery))

\* game_provider: the default of both importers, and another
DefaultProvider == "pl_totalizator"

Providers == {DefaultProvider, "other"}

-----------------------------------------------------------------------------
(* scheduler.py: the archive of downloads.  RAW_DIR is a function from the  *)
(* names of its mbnet_*.txt files to their bytes; bytes are the sequence of *)
(* their ASCII characters.                                                   *)

NoFiles == [f \in {} |-> <<>>]

\* what the feed serves: one line, two lines around a blank one, nothing
PayloadA == Line(1, Day1, NumsA) \o <<"\n">>

PayloadB ==
    Line(1, Day1, NumsA) \o <<"\n", " ", "\n">> \o Line(2, Day2, NumsB) \o <<"\n">>

PayloadC == <<>>

Payloads == {PayloadA, PayloadB, PayloadC}

\* _sha256_bytes: hashlib.sha256(data).hexdigest(), tabulated
sha256_bytes(data) ==
    CASE data = PayloadA -> "757fea6603adfd56d8708af8c4ab6a842b11318c9c2b259056cd0267b24be99e"
      [] data = PayloadB -> "4f7148b2daa19c1f6905ae104db533b95865c9b3839f15d0417605072057766a"
      [] data = PayloadC -> "e3b0c44298fc1c149afbf4c8996fb92427ae41e4649b934ca495991b7852b855"

\* datetime.now(UTC).strftime("%Y%m%dT%H%M%SZ"): the clock counts the seconds
\* of the UTC day `day`
strftime(day, clock) ==
    Pad(NatStr(day[1]), 4) \o Pad(NatStr(day[2]), 2) \o Pad(NatStr(day[3]), 2)
        \o <<"T">> \o Pad(NatStr(clock \div 3600), 2)
        \o Pad(NatStr((clock \div 60) % 60), 2) \o Pad(NatStr(clock % 60), 2) \o <<"Z">>

\* f"mbnet_{ts}.txt"
RawName(ts) == <<"m", "b", "n", "e", "t", "_">> \o ts \o <<".", "t", "x", "t">>

ClockDay == Day3

\* an archive that retention has filled: 30 files of the day before
RetentionKeep == 30

FullArchive ==
    [f \in {RawName(strftime(Day2, k)) : k \in 0..(RetentionKeep - 1)} |-> PayloadA]

\* the order of the file names (str < str), tabulated once over the names of
\* the model: for each name, how many names precede it
ArchiveNames ==
    DOMAIN FullArchive \cup {RawName(strftime(ClockDay, k)) : k \in 0..MaxClock}

NameOrder ==
    [f \in ArchiveNames |-> Cardinality({g \in ArchiveNames : StrLess(g, f)})]

\* sorted(RAW_DIR.glob("mbnet_*.txt"), key=name, reverse=True): the position
\* of a file, from 0
Position(names, f) == Cardinality({g \in names : NameOrder[f] < NameOrder[g]})

\* files[0] if files else None; called on an archive that holds a file
latest_raw_file(files) == CHOOSE f \in DOMAIN files : Position(DOMAIN files, f) = 0

\* files[max_keep:] are unlinked
Kept(names, max_keep) == {f \in names : Position(names, f) < max_keep}

Restrict(files, names) == [f \in names |-> files[f]]

enforce_retention(files, max_keep) == Restrict(files, Kept(DOMAIN files, max_keep))

\* saved.write_bytes(data): creates the file or replaces its bytes
write_bytes(files, name, data) ==
    [f \in DOMAIN files \cup {name} |-> IF f = name THEN data ELSE files[f]]

\* text.splitlines(), for text whose only line boundary is "\n"
DropLastEmpty(parts) ==
    IF parts[Len(parts)] = <<>> THEN SubSeq(parts, 1, Len(parts) - 1) ELSE parts

splitlines(text) == DropLastEmpty(split(text, "\n"))

StripEach(parts) == [i \in 1..Len(parts) |-> strip(parts[i])]

\* [line.strip() for line in text.splitlines() if line.strip()]; the bytes
\* are ASCII, so data.decode("utf-8") succeeds and changes nothing
feed_lines(data) == SelectSeq(StripEach(splitlines(data)), NonEmpty)

FetchReturn(files, data, saved_name) ==
    [exc |-> "none", files |-> files, lines |-> feed_lines(data),
     meta |-> [file |-> saved_name, sha256 |-> sha256_bytes(data)]]

\* write the file, then _enforce_retention(30)
Save(files, data, name) ==
    FetchReturn(enforce_retention(write_bytes(files, name, data), RetentionKeep), data, name)

\* same_as_latest: False without a latest file and when reading it fails
same_as_latest(files, data, read_ok) ==
    IF DOMAIN files = {} THEN FALSE
    ELSE IF ~read_ok THEN FALSE
    ELSE sha256_bytes(files[latest_raw_file(files)]) = sha256_bytes(data)

Archive(files, data, same, clock) ==
    IF same THEN FetchReturn(files, data, <<>>)
    ELSE Save(files, data, RawName(strftime(ClockDay, clock)))

\* fetch_mbnet_txt(url, archive): download is what urlopen(url) does, read_ok
\* whether latest.read_bytes() succeeds; returns [exc, files, lines, meta]
fetch_mbnet_txt(files, download, archive, read_ok, clock) ==
    IF ~download.ok
        THEN [exc |-> "RuntimeError", files |-> files, lines |-> <<>>,
              meta |-> [file |-> <<>>, sha256 |-> ""]]
    ELSE IF archive
        THEN Archive(files, download.data, same_as_latest(files, download.data, read_ok), clock)
    ELSE FetchReturn(files, download.data, <<>>)

Downloads == {[ok |-> FALSE, data |-> <<>>]} \cup {[ok |-> TRUE, data |-> p] : p \in Payloads}

-----------------------------------------------------------------------------
(* repositories/draws.py and analysis/frequency.py.  An Optional argument   *)
(* is None or Some(value).                                                   *)

None == <<>>

Some(x) == <<x>>

\* `if game_type:` - a str is supplied when it is neither None nor empty
Truthy(o) == o # None /\ o[1] # ""

\* the conditions of list and of count; a date is never falsy
Matches(r, f) ==
    /\ Truthy(f.game_type) => r.game_type = f.game_type[1]
    /\ Truthy(f.game_provider) => r.game_provider = f.game_provider[1]
    /\ f.date_from # None => DateLE(f.date_from[1], r.draw_date)
    /\ f.date_to # None => DateLE(r.draw_date, f.date_to[1])

Select(db, f) == {r \in db : Matches(r, f)}

\* order_by(Draw.draw_date.desc(), Draw.draw_number.desc())
RowBefore(a, b) ==
    \/ DateLT(b.draw_date, a.draw_date)
    \/ a.draw_date = b.draw_date /\ a.draw_number > b.draw_number

FirstRow(S) == CHOOSE r \in S : \A q \in S \ {r} : RowBefore(r, q)

RECURSIVE order_by(_)
order_by(S) ==
    IF S = {} THEN <<>> ELSE <<FirstRow(S)>> \o order_by(S \ {FirstRow(S)})

\* rows[offset: limit], the slice of a list that forgets to add the offset
Slice_to_limit(rows, offset, limit) ==
    SubSeq(rows, offset + 1, MinOf({limit, Len(rows)}))

\* rows[offset: offset + limit], for offset >= 0 and limit >= 0
Slice(rows, offset, limit) ==
    SubSeq(rows, offset + 1, MinOf({offset + limit, Len(rows)}))

\* the dictionary of a row (the id, which the model does not keep, left out)
ToDict(row) ==
    [draw_number |-> row.draw_number, draw_date |-> isoformat(row.draw_date),
     game_type |-> row.game_type, game_provider |-> row.game_provider,
     numbers |-> row.numbers, jackpot |-> row.jackpot]

DictEach(rows) == [i \in 1..Len(rows) |-> ToDict(rows[i])]

\* DrawRepository.list
list(db, f, limit, offset) == DictEach(Slice(order_by(Select(db, f)), offset, limit))

\* a count that leaves out the condition on date_to
count_open_end(db, f) == Cardinality(Select(db, [f EXCEPT !.date_to = None]))

\* DrawRepository.count
count(db, f) == Cardinality(Select(db, f))

\* GET /api/v1/draws
list_draws(db, f, limit, offset) ==
    [items |-> list(db, f, limit, offset), total |-> count(db, f)]

\* date_to - timedelta(days=window_days), a window one day too long
WindowStart_long(date_to, window_days) == AddDays(date_to, 0 - window_days)

\* date_to - timedelta(days=window_days - 1)
WindowStart(date_to, window_days) == AddDays(date_to, 0 - (window_days - 1))

\* if date_to is None: date_to = date.today()
DateTo(date_to, day) == IF date_to = None THEN Some(day) ELSE date_to

\* if window_days is not None and date_from is None: date_from = ...
DateFrom(date_from, date_to, window_days) ==
    IF window_days # None /\ date_from = None
    THEN Some(WindowStart(date_to[1], window_days[1]))
    ELSE date_from

\* conditions of calculate_frequency: game_type always, the provider when
\* truthy, the dates when not None
FreqMatches(r, game_type, game_provider, date_from, date_to) ==
    /\ r.game_type = game_type
    /\ Truthy(game_provider) => r.game_provider = game_provider[1]
    /\ date_from # None => DateLE(date_from[1], r.draw_date)
    /\ date_to # None => DateLE(r.draw_date, date_to[1])

\* counts[n] += 1 on a Counter
Inc(counts, n) ==
    [k \in DOMAIN counts \cup {n} |->
        (IF k \in DOMAIN counts THEN counts[k] ELSE 0) + (IF k = n THEN 1 ELSE 0)]

RECURSIVE CountNumbers(_, _)
CountNumbers(nums, counts) ==
    IF nums = <<>> THEN counts ELSE CountNumbers(Tail(nums), Inc(counts, Head(nums)))

AnyRow(rows) == CHOOSE r \in rows : TRUE

\* for (numbers_csv,) in rows: for n in _parse_numbers(numbers_csv): ...
RECURSIVE CountRows(_, _)
CountRows(rows, counts) ==
    IF rows = {} THEN counts
    ELSE CountRows(rows \ {AnyRow(rows)},
                   CountNumbers(parse_numbers(AnyRow(rows).numbers), counts))

\* for n in range(1, 50): counts.setdefault(n, 0)
SetDefaults(counts) ==
    [n \in DOMAIN counts \cup (NumberMin..NumberMax) |->
        IF n \in DOMAIN counts THEN counts[n] ELSE 0]

FreqSelect(db, game_type, game_provider, date_from, date_to) ==
    {r \in db : FreqMatches(r, game_type, game_provider, date_from, date_to)}

FreqCount(db, game_type, game_provider, date_from, date_to) ==
    SetDefaults(CountRows(FreqSelect(db, game_type, game_provider, date_from, date_to), <<>>))

FreqDates(db, game_type, game_provider, date_from, date_to, window_days) ==
    FreqCount(db, game_type, game_provider,
              DateFrom(date_from, date_to, window_days), date_to)

\* calculate_frequency(session, game_type, date_from, date_to, window_days,
\* game_provider) called on the day `day`; the dictionary as a function
calculate_frequency(db, game_type, date_from, date_to, window_days, game_provider, day) ==
    FreqDates(db, game_type, game_provider, date_from, DateTo(date_to, day), window_days)

-----------------------------------------------------------------------------
(* Calls *)

NoCall == [op |-> "none"]

Init ==
    /\ draws = {}
    /\ today = Day1
    /\ now = 0
    /\ raw = NoFiles
    /\ update_log = <<>>
    /\ call = NoCall

\* the caller takes the result
Return ==
    /\ call.op # "none"
    /\ call' = NoCall
    /\ UNCHANGED <<draws, today, now, raw, update_log>>

\* list(parse_initial_txt(lines))
ParseInitialTxt(lines) ==
    /\ call.op = "none"
    /\ LET r == parse_initial_txt(lines)
       IN  call' = [op |-> "parse_initial_txt", lines |-> lines,
                    exc |-> r.exc, out |-> r.out]
    /\ UNCHANGED <<draws, today, now, raw, update_log>>

\* A call of an importer.  The caller either takes the result (Return) or
\* makes the same call again at once; `repeat` records that this call follows
\* a completed call of the same function with the same arguments.  `before`
\* is the table as the call found it.
ImportCall(op, lines, game_provider, r) ==
    /\ \/ call.op = "none"
       \/ call.op = op /\ call.lines = lines /\ call.game_provider = game_provider
    /\ draws' = r.db
    /\ call' = [op |-> op, lines |-> lines, game_provider |-> game_provider,
                before |-> draws, exc |-> r.exc, ret |-> r.ret,
                repeat |-> (call.op = op /\ call.exc = "none")]
    /\ UNCHANGED <<today, now, raw, update_log>>

ImportLines(lines, game_provider) ==
    ImportCall("import_lines", lines, game_provider,
               import_lines(draws, lines, game_provider, today))

ImportNewFromLines(lines, game_provider) ==
    ImportCall("import_new_from_lines", lines, game_provider,
               import_new_from_lines(draws, lines, game_provider, today))

\* midnight, between two calls
Tick ==
    /\ call.op = "none"
    /\ today # Calendar[Len(Calendar)]
    /\ today' = NextDay(today)
    /\ UNCHANGED <<draws, now, raw, call, update_log>>

Next ==
    \/ \E lines \in SeqsUpTo(ImportUniverse, MaxLines) :
          ImportLines(lines, DefaultProvider)
    \/ \E lines \in SeqsUpTo(ImportUniverse, MaxLines) :
          ImportNewFromLines(lines, DefaultProvider)
    \/ Tick
    \/ Return

Spec == Init /\ [][Next]_vars

NextParse ==
    \/ \E lines \in SeqsUpTo(ParseUniverse, MaxLines) : ParseInitialTxt(lines)
    \/ Return

SpecParse == Init /\ [][NextParse]_vars

\* fetch_mbnet_txt(url, archive=archive)
FetchCall(r, download, archive, read_ok) ==
    /\ raw' = r.files
    /\ call' = [op |-> "fetch_mbnet_txt", data |-> download.data, archive |-> archive,
                read_ok |-> read_ok, files |-> raw, exc |-> r.exc, lines |-> r.lines,
                meta |-> r.meta]

Fetch(download, archive, read_ok) ==
    /\ call.op = "none"
    /\ FetchCall(fetch_mbnet_txt(raw, download, archive, read_ok, now),
                 download, archive, read_ok)
    /\ UNCHANGED <<draws, today, now, update_log>>

\* a second of the UTC clock passes, between two calls
ClockTick ==
    /\ call.op = "none"
    /\ now < MaxClock
    /\ now' = now + 1
    /\ UNCHANGED <<draws, today, raw, call, update_log>>

\* the program starts with an archive directory that is empty or full
InitFetch ==
    /\ draws = {}
    /\ today = Day3
    /\ now = 0
    /\ raw \in {NoFiles, FullArchive}
    /\ update_log = <<>>
    /\ call = NoCall

NextFetch ==
    \/ \E download \in Downloads, archive \in BOOLEAN, read_ok \in BOOLEAN :
          Fetch(download, archive, read_ok)
    \/ ClockTick
    \/ Return

SpecFetch == InitFetch /\ [][NextFetch]_vars

\* GET /api/v1/draws with these query parameters
ListDraws(f, limit, offset) ==
    /\ call.op = "none"
    /\ call' = [op |-> "list_draws", filters |-> f, limit |-> limit, offset |-> offset,
                ret |-> list_draws(draws, f, limit, offset)]
    /\ UNCHANGED <<draws, today, now, raw, update_log>>

\* calculate_frequency(session, ...)
CalculateFrequency(game_type, date_from, date_to, window_days, game_provider) ==
    /\ call.op = "none"
    /\ call' = [op |-> "calculate_frequency", game_type |-> game_type,
                date_from |-> date_from, date_to |-> date_to,
                window_days |-> window_days, game_provider |-> game_provider,
                ret |-> calculate_frequency(draws, game_type, date_from, date_to,
                                            window_days, game_provider, today)]
    /\ UNCHANGED <<draws, today, now, raw, update_log>>

DatesFrom == {None, Some(Day2)}

DatesTo == {None, Some(Day1)}

Filters ==
    [game_type : {None, Some(""), Some("lotto")},
     game_provider : {None, Some("other")},
     date_from : DatesFrom, date_to : DatesTo]

Windows == {None} \cup {Some(w) : w \in 0..MaxWindow}

NextQuery ==
    \/ \E lines \in SeqsUpTo(QueryUniverse, MaxLines), game_provider \in Providers :
          ImportLines(lines, game_provider)
    \/ Tick
    \/ Return
    \/ \E f \in Filters, limit \in 0..MaxPage, offset \in 0..MaxPage :
          ListDraws(f, limit, offset)
    \/ \E game_type \in {"lotto", "lotto_plus"}, date_from \in DatesFrom,
          date_to \in DatesTo, window_days \in Windows,
          game_provider \in {None, Some("other")} :
          CalculateFrequency(game_type, date_from, date_to, window_days, game_provider)

SpecQuery == Init /\ [][NextQuery]_vars

-----------------------------------------------------------------------------
(* Two runs of the importers at the same time, each in a session of its    *)
(* own (SessionLocal has autoflush=False): a run reads the table when it    *)
(* selects the maximum and writes it when it commits.  With fewer than 500  *)
(* accepted lines the only commit is the one that ends the run.             *)

Runs == {1, 2}

\* feeds in which no draw_number repeats: a run on its own imports them
\* without an exception
DistinctFeeds ==
    {lines \in SeqsUpTo(QueryUniverse, MaxLines) :
        \A i, j \in 1..Len(lines) :
            i # j => ParsedLine[lines[i]].draw.draw_number # ParsedLine[lines[j]].draw.draw_number}

\* the two runs are started over the same lines
StartRuns(lines, fn) ==
    /\ call.op = "none"
    /\ call' = [op |-> "concurrent_imports", lines |-> lines,
                game_provider |-> DefaultProvider, before |-> draws,
                runs |-> [p \in Runs |-> [fn |-> fn[p], pc |-> "select_max"]]]
    /\ UNCHANGED <<draws, today, now, raw, update_log>>

\* max_id = session.execute(select(func.max(Draw.draw_number))).scalar() or 0
SelectMax(p) ==
    /\ call.op = "concurrent_imports"
    /\ call.runs[p].pc = "select_max"
    /\ call' = [call EXCEPT !.runs[p] =
                   [fn |-> @.fn, pc |-> "loop", max_id |-> max_draw_number(draws)]]
    /\ UNCHANGED <<draws, today, now, raw, update_log>>

RunReturn(fn, r) ==
    [fn |-> fn, pc |-> "done", exc |-> r.exc,
     ret |-> IF fn = "import_lines" THEN RetLines(r).ret ELSE RetNew(r).ret]

RunEnd(p, r) ==
    /\ draws' = r.db
    /\ call' = [call EXCEPT !.runs[p] = RunReturn(@.fn, r)]

\* the loop over the parsed lines and the commit, with the maximum the run
\* read at its start and the table as it is now
LoopAndCommit(p) ==
    /\ call.op = "concurrent_imports"
    /\ call.runs[p].pc = "loop"
    /\ RunEnd(p, ImportRun(draws, parse_initial_txt(call.lines), call.runs[p].max_id,
                           call.game_provider, today, CommitEvery))
    /\ UNCHANGED <<today, now, raw, update_log>>

\* both runs have ended and their callers take the results
Join ==
    /\ call.op = "concurrent_imports"
    /\ \A p \in Runs : call.runs[p].pc = "done"
    /\ call' = NoCall
    /\ UNCHANGED <<draws, today, now, raw, update_log>>

NextConcurrent ==
    \/ /\ call.op = "none"
       /\ \E lines \in DistinctFeeds,
             fn \in [Runs -> {"import_lines", "import_new_from_lines"}] :
             StartRuns(lines, fn)
    \/ \E p \in Runs : SelectMax(p)
    \/ \E p \in Runs : LoopAndCommit(p)
    \/ Join
    \/ Tick

SpecConcurrent == Init /\ [][NextConcurrent]_vars

-----------------------------------------------------------------------------
(* scheduler.py: update_from_mbnet and _append_update_log; api/main.py:     *)
(* lifespan.  The application is started on the day ClockDay.               *)

MaxLogRows == 3

SourceUrl == "http://www.mbnet.com.pl/dl_razem.txt"

LogHeader ==
    <<"timestamp_utc", "source_url", "inserted", "skipped", "max_existing",
      "file_name", "sha256">>

\* datetime.now(UTC).isoformat(), the clock in whole seconds
utc_isoformat(day, clock) ==
    isoformat(day) \o <<"T">> \o Pad(NatStr(clock \div 3600), 2) \o <<":">>
        \o Pad(NatStr((clock \div 60) % 60), 2) \o <<":">> \o Pad(NatStr(clock % 60), 2)
        \o <<"+", "0", "0", ":", "0", "0">>

LogRow(source_url, meta, res, clock) ==
    <<utc_isoformat(ClockDay, clock), source_url, res.inserted, res.skipped,
      res.max_existing, meta.file, meta.sha256>>

\* _append_update_log(source_url, meta, res): the header goes first into a
\* new file
append_update_log(log, source_url, meta, res, clock) ==
    IF log = <<>> THEN <<LogHeader, LogRow(source_url, meta, res, clock)>>
    ELSE Append(log, LogRow(source_url, meta, res, clock))

UpdateLogged(fetched, imported, log, clock) ==
    IF imported.exc # "none"
        THEN [exc |-> imported.exc, db |-> imported.db, files |-> fetched.files,
              log |-> log, res |-> <<>>]
    ELSE [exc |-> "none", db |-> imported.db, files |-> fetched.files,
          log |-> append_update_log(log, SourceUrl, fetched.meta, imported.ret, clock),
          res |-> imported.ret]

UpdateImported(fetched, db, log, day, clock) ==
    IF fetched.exc # "none"
        THEN [exc |-> fetched.exc, db |-> db, files |-> fetched.files, log |-> log,
              res |-> <<>>]
    ELSE UpdateLogged(fetched,
                      import_new_from_lines(db, fetched.lines, DefaultProvider, day),
                      log, clock)

\* update_from_mbnet(): [exc, db, files, log, res]
update_from_mbnet(db, files, log, download, read_ok, day, clock) ==
    UpdateImported(fetch_mbnet_txt(files, download, TRUE, read_ok, clock),
                   db, log, day, clock)

\* a lifespan without its try statement: the exception ends the startup
lifespan_uncaught(exc) == IF exc = "none" THEN "complete" ELSE "failed"

\* lifespan up to its yield: "except Exception" takes every exception of the
\* update, all of them subclasses of Exception, and the yield is reached
lifespan(exc) ==
    IF exc \in {"none", "RuntimeError", "IntegrityError", "ValueError"}
    THEN "complete" ELSE "failed"

StartupCall(download, r) ==
    /\ draws' = r.db
    /\ raw' = r.files
    /\ update_log' = r.log
    /\ call' = [op |-> "lifespan", download |-> download, exc |-> r.exc,
                before |-> [draws |-> draws, raw |-> raw, update_log |-> update_log],
                startup |-> lifespan(r.exc), response |-> None]

\* the application starts
Startup(download, read_ok) ==
    /\ call.op = "none"
    /\ Len(update_log) < MaxLogRows
    /\ StartupCall(download, update_from_mbnet(draws, raw, update_log, download,
                                               read_ok, today, now))
    /\ UNCHANGED <<today, now>>

\* the started application answers GET /api/v1/draws
Serve(limit) ==
    /\ call.op = "lifespan"
    /\ call.startup = "complete"
    /\ call' = [call EXCEPT !.response =
                   Some(list_draws(draws, [game_type |-> None, game_provider |-> None,
                                            date_from |-> None, date_to |-> None],
                                   limit, 0))]
    /\ UNCHANGED <<draws, today, now, raw, update_log>>

NextStartup ==
    \/ /\ call.op = "none"
       /\ \E download \in Downloads, read_ok \in BOOLEAN : Startup(download, read_ok)
    \/ \E limit \in 1..MaxPage : Serve(limit)
    \/ ClockTick
    \/ Return

SpecStartup == InitFetch /\ [][NextStartup]_vars

-----------------------------------------------------------------------------
(* Claims about the importers *)

IsImport(c) == c.op \in {"import_lines", "import_new_from_lines"}

\* the maximum stored draw_number, 0 for an empty table
MaxStored(db) == IF db = {} THEN 0 ELSE MaxOf({r.draw_number : r \in db})

\* the parsed lines of a call, and the positions of those it must accept:
\* above the maximum the call found, and valid on the day of the call
ParsedOf(c) == parse_initial_txt(c.lines).out

AcceptedOf(c) ==
    {i \in 1..Len(ParsedOf(c)) :
        /\ ParsedOf(c)[i].draw_number > MaxStored(c.before)
        /\ validate_draw(ParsedOf(c)[i], today).ok}

RowOf(db, n) == CHOOSE r \in db : r.draw_number = n

\* C1: every stored draw has exactly 6 numbers, pairwise distinct and each in
\* 1..49, a draw_number above 0, and a draw_date not after the day of its
\* import (the day never goes back, and the import leaves it as it is, so the
\* date is compared with the day of every state since the import).
C1_StoredDrawsValid ==
    \A r \in draws :
        LET ns == parse_numbers(r.numbers)
        IN  /\ Len(ns) = 6
            /\ \A i \in 1..Len(ns) : ns[i] >= 1 /\ ns[i] <= 49
            /\ \A i, j \in 1..Len(ns) : i # j => ns[i] # ns[j]
            /\ r.draw_number > 0
            /\ DateLE(r.draw_date, today)

\* an import that stored a row and skipped a line that parses but is invalid
C1_Witness ==
    /\ IsImport(call) /\ call.exc = "none"
    /\ draws # call.before
    /\ \E i \in 1..Len(ParsedOf(call)) :
          /\ ParsedOf(call)[i].draw_number > MaxStored(call.before)
          /\ ~validate_draw(ParsedOf(call)[i], today).ok

\* C2: the maximum is read once, at the start of the call.  A row is added
\* only for a parsed line above that maximum that passes validate_draw, and
\* when the call returns every accepted line has been counted in 'inserted'
\* and every other parsed line in 'skipped'.
C2_HighWaterMark ==
    IsImport(call) =>
        /\ call.before \subseteq draws
        /\ \A r \in draws \ call.before :
              \E i \in AcceptedOf(call) :
                  /\ r.draw_number = ParsedOf(call)[i].draw_number
                  /\ r.draw_date = ParsedOf(call)[i].draw_date
                  /\ parse_numbers(r.numbers) = ParsedOf(call)[i].numbers
        /\ call.exc = "none" =>
              /\ call.ret.inserted = Cardinality(AcceptedOf(call))
              /\ call.ret.skipped = Len(ParsedOf(call)) - Cardinality(AcceptedOf(call))
              /\ Cardinality(draws \ call.before) = call.ret.inserted

\* a call on a table that holds draws: it skipped a valid line at or below the
\* maximum and inserted two lines above it, the larger draw_number first
C2_Witness ==
    /\ IsImport(call) /\ call.exc = "none" /\ call.before # {}
    /\ call.ret.skipped >= 1 /\ call.ret.inserted >= 1
    /\ \E i \in 1..Len(ParsedOf(call)) :
          /\ ParsedOf(call)[i].draw_number <= MaxStored(call.before)
          /\ validate_draw(ParsedOf(call)[i], today).ok

\* C3: a call that repeats the completed call before it, with the same lines
\* on the same day, inserts nothing and leaves the table as it found it.
C3_Idempotent ==
    (IsImport(call) /\ call.repeat) =>
        /\ call.exc = "none"
        /\ call.ret.inserted = 0
        /\ draws = call.before

\* a repeated call whose lines are all stored
C3_Witness ==
    /\ IsImport(call) /\ call.repeat
    /\ Len(ParsedOf(call)) = MaxLines
    /\ \A i \in 1..Len(ParsedOf(call)) :
          \E r \in draws : r.draw_number = ParsedOf(call)[i].draw_number
    /\ call.ret.skipped = MaxLines

\* C4: an import returns its dictionary, whatever the lines, and no two rows
\* share a draw_number.
C4_DuplicatesSkipped ==
    /\ IsImport(call) => call.exc = "none"
    /\ \A r1, r2 \in draws : r1.draw_number = r2.draw_number => r1 = r2

\* C5: in a call that returns, the first accepted line of a draw_date is
\* stored as "lotto" and every later accepted line of that date as
\* "lotto_plus"; an import stores no other game_type.
C5_GameTypes ==
    /\ \A r \in draws : r.game_type \in {"lotto", "lotto_plus"}
    /\ (IsImport(call) /\ call.exc = "none") =>
          \A i \in AcceptedOf(call) :
              RowOf(draws, ParsedOf(call)[i].draw_number).game_type =
                  IF \E j \in AcceptedOf(call) :
                        j < i /\ ParsedOf(call)[j].draw_date = ParsedOf(call)[i].draw_date
                  THEN "lotto_plus" ELSE "lotto"

\* a call stored two draws of one date
C5_Witness ==
    /\ IsImport(call) /\ call.exc = "none"
    /\ \E r1, r2 \in draws \ call.before :
          /\ r1.draw_date = r2.draw_date
          /\ r1.game_type = "lotto" /\ r2.game_type = "lotto_plus"

-----------------------------------------------------------------------------
(* Claims about the parser *)

\* the record a line of the feed's form carries, as a sequence of one record,
\* and the empty sequence for every other text
FeedValues ==
    ParseValues \cup {<<1, Day1, NumsA>>, <<2, Day2, NumsB>>}

FormOf(text) ==
    {x \in FeedValues \X Leads \X Gaps :
        FormatLine(x[1][1], x[1][2], x[1][3], x[2], x[3]) = text}

ExpectedOf(text) ==
    IF FormOf(text) = {} THEN <<>>
    ELSE LET x == CHOOSE x \in FormOf(text) : TRUE
         IN  <<ParsedDraw(x[1][1], x[1][2], x[1][3])>>

RECURSIVE ExpectedParse(_)
ExpectedParse(lines) ==
    IF lines = <<>> THEN <<>>
    ELSE ExpectedOf(Head(lines)) \o ExpectedParse(Tail(lines))

\* C6: parse_initial_txt raises nothing; it yields, in the order of the input,
\* one record for each line of the form '<integer>. <dd.mm.yyyy>
\* <comma-separated integers>' (the form is read as file_parser.py reads it:
\* resilient to the spacing around the index) and nothing for a blank line,
\* a comment or a malformed line.
C6_ParseTotal ==
    call.op = "parse_initial_txt" =>
        /\ call.exc = "none"
        /\ call.out = ExpectedParse(call.lines)

\* a malformed line before a well-formed one: one record comes out
C6_Witness ==
    /\ call.op = "parse_initial_txt"
    /\ Len(call.lines) = 2
    /\ call.lines[1] \in MalformedLines
    /\ call.lines[2] \in WellFormedLines
    /\ Len(call.out) = 1

-----------------------------------------------------------------------------
(* Claims about the archive *)

\* the newest archived file: no name follows its name
Newest(files) ==
    CHOOSE f \in DOMAIN files : \A g \in DOMAIN files : NameOrder[g] <= NameOrder[f]

\* C7: a fetch that downloads bytes with the SHA-256 of the newest archived
\* file (which it can read) writes and deletes no archive file and returns
\* file = ''; any other download is written to exactly one new archive file,
\* which holds the downloaded bytes.
C7_ArchiveByHash ==
    (call.op = "fetch_mbnet_txt" /\ call.exc = "none" /\ call.archive /\ call.read_ok) =>
        IF /\ DOMAIN call.files # {}
           /\ sha256_bytes(call.files[Newest(call.files)]) = sha256_bytes(call.data)
        THEN raw = call.files /\ call.meta.file = <<>>
        ELSE /\ call.meta.file \in DOMAIN raw
             /\ raw[call.meta.file] = call.data
             /\ DOMAIN raw \ DOMAIN call.files = {call.meta.file}
             /\ \A f \in (DOMAIN raw \cap DOMAIN call.files) : raw[f] = call.files[f]

-----------------------------------------------------------------------------
(* Claims about the queries *)

\* a filter on a text column is supplied when it has a value other than the
\* empty string, a filter on the date when it has a value
Supplied(o) == o # <<>> /\ o # <<"">>

\* the stored draws that satisfy every supplied filter
Filtered(f) ==
    {r \in draws :
        /\ Supplied(f.game_type) => r.game_type = f.game_type[1]
        /\ Supplied(f.game_provider) => r.game_provider = f.game_provider[1]
        /\ f.date_from # <<>> => ~DateLT(r.draw_date, f.date_from[1])
        /\ f.date_to # <<>> => ~DateLT(f.date_to[1], r.draw_date)}

\* how many draws of S come before r: later date, or same date and larger
\* draw_number
Ahead(S, r) ==
    Cardinality({q \in S : \/ DateLT(r.draw_date, q.draw_date)
                           \/ q.draw_date = r.draw_date /\ q.draw_number > r.draw_number})

\* the element at position k (from 0) of the ordered sequence of S
ElementAt(S, k) == ToDict(CHOOSE r \in S : Ahead(S, r) = k)

\* the items are exactly elements offset .. offset+limit-1 of the ordered
\* sequence of the filtered draws
IsSlice(items, S, limit, offset) ==
    /\ Len(items) = MaxOf({0, MinOf({limit, Cardinality(S) - offset})})
    /\ \A i \in 1..Len(items) : items[i] = ElementAt(S, offset + i - 1)

\* the page at offset k * limit, for the filters and the limit of the call
PageAt(c, k) == Range(list(draws, c.filters, c.limit, k * c.limit))

PageCount(c) == Cardinality(Filtered(c.filters))

PagesDisjoint(c) ==
    \A j, k \in 0..PageCount(c) : j # k => PageAt(c, j) \cap PageAt(c, k) = {}

PagesCover(c) ==
    UNION {PageAt(c, k) : k \in 0..PageCount(c)} = {ToDict(r) : r \in Filtered(c.filters)}

\* C8 as stated: for limit >= 0 and offset >= 0 the rows returned are the
\* elements offset .. offset+limit-1 of the filtered draws ordered by
\* draw_date and then draw_number, both descending, at most limit of them, and
\* the pages at offsets 0, limit, 2*limit, ... are pairwise disjoint and
\* together cover the filtered set.
C8_ListPages ==
    call.op = "list_draws" =>
        /\ IsSlice(call.ret.items, Filtered(call.filters), call.limit, call.offset)
        /\ Len(call.ret.items) <= call.limit
        /\ PagesDisjoint(call)
        /\ PagesCover(call)

\* C8, amended: the slice and the bound hold for limit >= 0 and offset >= 0;
\* the pages are pairwise disjoint, and for limit >= 1 they cover the
\* filtered set (every page of limit 0 is empty).
C8_ListPagesFromOne ==
    call.op = "list_draws" =>
        /\ IsSlice(call.ret.items, Filtered(call.filters), call.limit, call.offset)
        /\ Len(call.ret.items) <= call.limit
        /\ PagesDisjoint(call)
        /\ call.limit >= 1 => PagesCover(call)
        /\ (call.limit = 0 /\ Filtered(call.filters) # {}) => ~PagesCover(call)

\* a second page: of three draws two pass the filter on game_type, and the
\* call returns the older of them after an offset of one
C8_Witness ==
    /\ call.op = "list_draws"
    /\ Supplied(call.filters.game_type)
    /\ Cardinality(draws) = 3
    /\ Cardinality(Filtered(call.filters)) = 2
    /\ call.limit = 1 /\ call.offset = 1
    /\ Len(call.ret.items) = 1
    /\ call.ret.items[1].draw_number = 1

\* C9: the total of GET /api/v1/draws, which is count(filters), is the size
\* of the filtered set whatever limit and offset are, and it is the number of
\* rows list(filters) returns at offset 0 with a limit of at least that count.
C9_CountMatchesList ==
    call.op = "list_draws" =>
        /\ call.ret.total = Cardinality(Filtered(call.filters))
        /\ \A limit \in call.ret.total..(call.ret.total + MaxPage) :
              Len(list(draws, call.filters, limit, 0)) = call.ret.total

\* a page shorter than the total, under a date_to, the only filter, that
\* leaves a draw out
C9_Witness ==
    /\ call.op = "list_draws"
    /\ call.filters = [game_type |-> <<>>, game_provider |-> <<>>,
                       date_from |-> <<>>, date_to |-> <<Day1>>]
    /\ call.ret.total = 2
    /\ Cardinality(draws) = 3
    /\ call.offset = 1
    /\ Len(call.ret.items) = 1

\* the days of the call's range: with window_days = W and no date_from the W
\* days that end at date_to (today when date_to is None); an explicit
\* date_from starts the range whatever window_days is
RangeEnd(c) == IF c.date_to = <<>> THEN today ELSE c.date_to[1]

InWindow(d, end, w) == \E k \in 0..(w - 1) : AddDays(d, k) = end

InRange(c, d) ==
    /\ ~DateLT(RangeEnd(c), d)
    /\ IF c.date_from # <<>> THEN ~DateLT(d, c.date_from[1])
       ELSE IF c.window_days # <<>> THEN InWindow(d, RangeEnd(c), c.window_days[1])
       ELSE TRUE

FreqRows(c) ==
    {r \in draws :
        /\ r.game_type = c.game_type
        /\ Supplied(c.game_provider) => r.game_provider = c.game_provider[1]
        /\ InRange(c, r.draw_date)}

\* C10: the result has a count for every number 1..49 and for no other; the
\* count of n is the number of occurrences of n in the stored draws of the
\* game_type, the provider (when given) and the range of dates.
C10_Frequency ==
    call.op = "calculate_frequency" =>
        /\ DOMAIN call.ret = 1..49
        /\ \A n \in 1..49 :
              call.ret[n] =
                  Cardinality({x \in FreqRows(call) \X (1..6) :
                                  parse_numbers(x[1].numbers)[x[2]] = n})

\* a window of two days that leaves an older "lotto" draw out and counts a
\* newer one
C10_Witness ==
    /\ call.op = "calculate_frequency"
    /\ call.window_days = <<2>> /\ call.date_from = <<>>
    /\ call.game_type = "lotto"
    /\ \E r \in draws : r.game_type = "lotto" /\ r \notin FreqRows(call)
                        /\ AddDays(r.draw_date, 2) = RangeEnd(call)
    /\ call.ret[1] = 1

\* an explicit date_from beside window_days: the range starts at date_from
C10_WitnessOverride ==
    /\ call.op = "calculate_frequency"
    /\ call.window_days = <<1>> /\ call.date_from = <<Day2>> /\ call.date_to = <<>>
    /\ today = Day3
    /\ call.ret[1] = 1

-----------------------------------------------------------------------------
(* analysis/frequency.py: hot and cold numbers.  A dict is the sequence of  *)
(* its items <<key, value>> in insertion order.  expected_each, the float   *)
(* num_draws * 6 / 49, is the fraction [num, den]; float(v) - expected_each *)
(* has the sign and the order of v * den - num.                              *)

MaxKey == 3

MaxCount == 2

MaxTopK == 2

\* a slice bound as Python normalises it on a list of length n
PyIndex(i, n) == IF i < 0 THEN MaxOf({0, i + n}) ELSE MinOf({i, n})

\* s[:stop]
SliceTo(s, stop) == SubSeq(s, 1, PyIndex(stop, Len(s)))

\* s[start:]
SliceFrom(s, start) == SubSeq(s, PyIndex(start, Len(s)) + 1, Len(s))

\* compute_expected_each
compute_expected_each(num_draws) == [num |-> num_draws * 6, den |-> 49]

\* compute_deltas: {k: float(v) - expected_each}
Delta(v, expected_each) == v * expected_each.den - expected_each.num

compute_deltas(freq, expected_each) ==
    [i \in 1..Len(freq) |-> <<freq[i][1], Delta(freq[i][2], expected_each)>>]

\* sorted(deltas.items(), key=delta, reverse=True): a stable sort, so items
\* of one delta keep their order
DeltaAhead(deltas, i) ==
    Cardinality({j \in 1..Len(deltas) :
        \/ deltas[j][2] > deltas[i][2]
        \/ deltas[j][2] = deltas[i][2] /\ j < i})

ItemAt(deltas, p) == deltas[CHOOSE i \in 1..Len(deltas) : DeltaAhead(deltas, i) = p - 1]

sorted_by_delta(deltas) == [p \in 1..Len(deltas) |-> ItemAt(deltas, p)]

IsHot(item) == item[2] > 0

IsCold(item) == item[2] < 0

Keys(items) == [i \in 1..Len(items) |-> items[i][1]]

\* sorted(numbers): for each element, how many come before it
SmallerIn(numbers, i) ==
    Cardinality({j \in 1..Len(numbers) :
        \/ numbers[j] < numbers[i]
        \/ numbers[j] = numbers[i] /\ j < i})

NumberAt(numbers, p) ==
    numbers[CHOOSE i \in 1..Len(numbers) : SmallerIn(numbers, i) = p - 1]

sorted(numbers) == [p \in 1..Len(numbers) |-> NumberAt(numbers, p)]

HotCold(by_delta, top_k) ==
    [hot |-> sorted(SliceTo(Keys(SelectSeq(by_delta, IsHot)), top_k)),
     cold |-> sorted(SliceFrom(Keys(SelectSeq(by_delta, IsCold)), 0 - top_k))]

\* get_hot_cold_numbers(freq, expected_each, top_k)
get_hot_cold_numbers(freq, expected_each, top_k) ==
    HotCold(sorted_by_delta(compute_deltas(freq, expected_each)), top_k)

\* the dicts given: counts of the numbers 1..MaxKey, inserted in ascending
\* order (as calculate_frequency builds them) or in descending order
KeyOrders == {[i \in 1..MaxKey |-> i], [i \in 1..MaxKey |-> MaxKey + 1 - i]}

FreqDicts ==
    {[i \in 1..MaxKey |-> <<order[i], c[i]>>] :
        order \in KeyOrders, c \in [1..MaxKey -> 0..MaxCount]}

ExpectedEachs == {compute_expected_each(n) : n \in {0, 5, 9}}

GetHotColdNumbers(freq, expected_each, top_k) ==
    /\ call.op = "none"
    /\ call' = [op |-> "get_hot_cold_numbers", freq |-> freq,
                expected_each |-> expected_each, top_k |-> top_k,
                ret |-> get_hot_cold_numbers(freq, expected_each, top_k)]
    /\ UNCHANGED <<draws, today, now, raw, update_log>>

-----------------------------------------------------------------------------
(* analysis/randomness.py: runs_test.  Of the floats of the result the     *)
(* model keeps expected_runs, as a fraction, and is_random; z_score and     *)
(* p_value are left out.                                                     *)

MaxSeq == 3

\* [1 if x > median else 0 for x in draw_sequence], median = sorted(...)[n // 2]
AboveEach(draw_sequence, median) ==
    [i \in 1..Len(draw_sequence) |-> IF draw_sequence[i] > median THEN 1 ELSE 0]

MedianBinary(draw_sequence) ==
    AboveEach(draw_sequence, sorted(draw_sequence)[(Len(draw_sequence) \div 2) + 1])

EvenOddBinary(draw_sequence) ==
    [i \in 1..Len(draw_sequence) |-> IF draw_sequence[i] % 2 = 0 THEN 1 ELSE 0]

HighLowBinary(draw_sequence) ==
    [i \in 1..Len(draw_sequence) |-> IF draw_sequence[i] > 25 THEN 1 ELSE 0]

AscendingBinary(draw_sequence) ==
    [i \in 1..Len(draw_sequence) |->
        IF i = 1 THEN 1 ELSE IF draw_sequence[i] > draw_sequence[i - 1] THEN 1 ELSE 0]

\* runs = 1; for i in range(1, n): if b[i] != b[i-1]: runs += 1
CountRuns(b) == 1 + Cardinality({i \in 2..Len(b) : b[i] # b[i - 1]})

Ones(b) == Cardinality({i \in 1..Len(b) : b[i] = 1})

\* expected_runs = 2 * n1 * n2 / (n1 + n2) + 1, or 1.0 with one kind only
ExpectedRuns(n1, n2) ==
    IF n1 = 0 \/ n2 = 0 THEN [num |-> 1, den |-> 1]
    ELSE [num |-> 2 * n1 * n2 + n1 + n2, den |-> n1 + n2]

\* r / d < 0.841459, in steps that stay within 32 bits
FractionBelow(r, d) ==
    IF (r * 1000) \div d # 841 THEN (r * 1000) \div d < 841
    ELSE ((r * 1000) % d) * 1000 < 459 * d

\* a / d < 3.841459 = 1.959964 ** 2
ZSquareBelow(a, d) ==
    IF a \div d # 3 THEN a \div d < 3 ELSE FractionBelow(a % d, d)

\* runs - expected_runs, times n1 + n2
RunsExcess(runs, n1, n2) == runs * (n1 + n2) - 2 * n1 * n2 - n1 - n2

\* p_value > 0.05 with p_value = 2 * (1 - norm.cdf(abs(z_score))), that is
\* z_score ** 2 < 1.959964 ** 2, where z_score ** 2 is
\* (runs - expected_runs) ** 2 / variance; p_value = 1.0 when variance == 0
IsRandom(runs, n1, n2) ==
    IF n1 = 0 \/ n2 = 0 \/ 2 * n1 * n2 - n1 - n2 = 0 THEN TRUE
    ELSE ZSquareBelow(RunsExcess(runs, n1, n2) * RunsExcess(runs, n1, n2) * (n1 + n2 - 1),
                      2 * n1 * n2 * (2 * n1 * n2 - n1 - n2))

RunsResult(runs, n1, n2, test_type) ==
    [exc |-> "none",
     ret |-> [observed_runs |-> runs, expected_runs |-> ExpectedRuns(n1, n2),
              is_random |-> IsRandom(runs, n1, n2), test_type |-> test_type,
              n1 |-> n1, n2 |-> n2]]

RunsOf(b, test_type) == RunsResult(CountRuns(b), Ones(b), Len(b) - Ones(b), test_type)

\* runs_test(draw_sequence, test_type): [exc, ret]
runs_test(draw_sequence, test_type) ==
    IF Len(draw_sequence) < 2
        THEN [exc |-> "none",
              ret |-> [observed_runs |-> 0, expected_runs |-> [num |-> 0, den |-> 1],
                       is_random |-> TRUE, test_type |-> test_type]]
    ELSE IF test_type = "median" THEN RunsOf(MedianBinary(draw_sequence), test_type)
    ELSE IF test_type = "even_odd" THEN RunsOf(EvenOddBinary(draw_sequence), test_type)
    ELSE IF test_type = "high_low" THEN RunsOf(HighLowBinary(draw_sequence), test_type)
    ELSE IF test_type = "ascending" THEN RunsOf(AscendingBinary(draw_sequence), test_type)
    ELSE [exc |-> "ValueError", ret |-> [test_type |-> test_type]]

SequenceValues == {2, 7, 30}

TestTypes == {"median", "even_odd", "high_low", "ascending", "mean", ""}

RunsTest(draw_sequence, test_type) ==
    /\ call.op = "none"
    /\ call' = [op |-> "runs_test", draw_sequence |-> draw_sequence,
                test_type |-> test_type,
                exc |-> runs_test(draw_sequence, test_type).exc,
                ret |-> runs_test(draw_sequence, test_type).ret]
    /\ UNCHANGED <<draws, today, now, raw, update_log>>

-----------------------------------------------------------------------------
(* analysis/randomness.py: autocorrelation_test.  What pandas and          *)
(* statsmodels compute for a lag is an input of the model, one Outcome per  *)
(* lag; of the dictionaries of the result the model keeps the keys, in the  *)
(* order of insertion.                                                       *)

MaxSample == 7
MaxLagList == 2

Outcomes == {"autocorr_raises", "ljungbox_raises", "significant", "insignificant"}

\* range(start, stop)
range(start, stop) == [i \in 1..MaxOf({0, stop - start}) |-> start + i - 1]

\* max_valid_lag = max(1, n // 3)
MaxValidLag(n) == MaxOf({1, n \div 3})

DefaultLags(n, max_lags) == range(1, MinOf({max_lags + 1, MaxValidLag(n) + 1}))

\* the mutant of ValidLags: lags up to n - 1 pass
ValidLags_below_n(lags, n) ==
    SelectSeq(lags, LAMBDA lag : 1 <= lag /\ lag < n)

\* [lag for lag in lags if 1 <= lag < n and lag <= max_valid_lag]
ValidLags(lags, n) ==
    SelectSeq(lags, LAMBDA lag : 1 <= lag /\ lag < n /\ lag <= MaxValidLag(n))

\* d[k] = ...: a new key goes to the end
SetKey(keys, k) == IF k \in Range(keys) THEN keys ELSE Append(keys, k)

EmptyResults(n) ==
    [autocorrelations |-> <<>>, significant_lags |-> <<>>, p_values |-> <<>>,
     confidence_intervals |-> <<>>, overall_significance |-> FALSE, sample_size |-> n]

\* one turn of "for lag in lags"
LagStep(results, lag, n, outcome) ==
    IF lag >= n \/ outcome = "autocorr_raises" THEN results
    ELSE IF outcome = "ljungbox_raises"
        THEN [results EXCEPT !.autocorrelations = SetKey(@, lag)]
    ELSE [results EXCEPT
            !.autocorrelations = SetKey(@, lag),
            !.p_values = SetKey(@, lag),
            !.confidence_intervals = SetKey(@, lag),
            !.significant_lags = IF outcome = "significant" THEN Append(@, lag) ELSE @]

RECURSIVE LagLoop(_, _, _, _)
LagLoop(results, lags, n, outcome) ==
    IF lags = <<>> THEN results
    ELSE LagLoop(LagStep(results, Head(lags), n, outcome[Head(lags)]), Tail(lags), n, outcome)

\* results["overall_significance"] = len(results["significant_lags"]) > 0
Overall(results) ==
    [results EXCEPT !.overall_significance = Len(results.significant_lags) > 0]

AutocorrelationOf(lags, n, outcome) ==
    IF lags = <<>> THEN EmptyResults(n)
    ELSE Overall(LagLoop(EmptyResults(n), lags, n, outcome))

\* autocorrelation_test(draw_sequence, lags, max_lags); outcome[lag] is what
\* the libraries do for the lag
autocorrelation_test(draw_sequence, lags, max_lags, outcome) ==
    IF Len(draw_sequence) < 2 THEN EmptyResults(Len(draw_sequence))
    ELSE IF lags = None
        THEN AutocorrelationOf(DefaultLags(Len(draw_sequence), max_lags),
                               Len(draw_sequence), outcome)
    ELSE AutocorrelationOf(ValidLags(lags[1], Len(draw_sequence)),
                           Len(draw_sequence), outcome)

Sample(n) == [i \in 1..n |-> ((i * 11) % 49) + 1]

Samples == {Sample(n) : n \in 0..MaxSample}

LagValues == {0, 1, 2, 3}

LagLists == {None} \cup {Some(lags) : lags \in SeqsUpTo(LagValues, MaxLagList)}

MaxLagsValues == {0, 1, 10}

AutocorrelationTest(draw_sequence, lags, max_lags, outcome) ==
    /\ call.op = "none"
    /\ call' = [op |-> "autocorrelation_test", draw_sequence |-> draw_sequence,
                lags |-> lags, max_lags |-> max_lags, outcome |-> outcome,
                ret |-> autocorrelation_test(draw_sequence, lags, max_lags, outcome)]
    /\ UNCHANGED <<draws, today, now, raw, update_log>>

-----------------------------------------------------------------------------
(* analysis/patterns.py: detect_consecutive_numbers and                     *)
(* detect_arithmetic_sequences.  avg_length, a float, is left out.           *)

MaxNumbers == 4
MaxDraws == 3

NoSequences == [total_sequences |-> 0, max_length |-> 0, sequences |-> <<>>]

\* one turn of "for i in range(1, len(sorted_numbers))"
ConsecutiveStep(st, number, min_length) ==
    IF number = st.current[Len(st.current)] + 1
        THEN [st EXCEPT !.current = Append(@, number)]
    ELSE [sequences |-> IF Len(st.current) >= min_length
                            THEN Append(st.sequences, st.current) ELSE st.sequences,
          current |-> <<number>>]

RECURSIVE ConsecutiveLoop(_, _, _)
ConsecutiveLoop(st, numbers, min_length) ==
    IF numbers = <<>> THEN st
    ELSE ConsecutiveLoop(ConsecutiveStep(st, Head(numbers), min_length),
                         Tail(numbers), min_length)

\* if len(current_sequence) >= min_length: sequences.append(current_sequence)
LastSequence(st, min_length) ==
    IF Len(st.current) >= min_length THEN Append(st.sequences, st.current)
    ELSE st.sequences

ConsecutiveStats(sequences) ==
    [total_sequences |-> Len(sequences),
     max_length |-> MaxOf({0} \cup {Len(sequences[i]) : i \in 1..Len(sequences)}),
     sequences |-> sequences]

ConsecutiveOf(sorted_numbers, min_length) ==
    ConsecutiveStats(LastSequence(
        ConsecutiveLoop([sequences |-> <<>>, current |-> <<Head(sorted_numbers)>>],
                        Tail(sorted_numbers), min_length),
        min_length))

\* detect_consecutive_numbers(draw_sequence, min_length)
detect_consecutive_numbers(draw_sequence, min_length) ==
    IF draw_sequence = <<>> \/ Len(draw_sequence) < min_length THEN NoSequences
    ELSE ConsecutiveOf(sorted(draw_sequence), min_length)

\* the pairs (i, j) of "for i in range(len(draw_nums)): for j in
\* range(i + min_length, len(draw_nums) + 1)", in the order of the loops
SlicePairs(n, min_length) ==
    SelectSeq([k \in 1..(n * (n + 1)) |-> <<(k - 1) \div (n + 1), (k - 1) % (n + 1)>>],
              LAMBDA ij : ij[2] >= ij[1] + min_length)

\* is_arithmetic: every difference equals the first
IsArithmetic(sequence) ==
    \A k \in 2..(Len(sequence) - 1) :
        sequence[k + 1] - sequence[k] = sequence[2] - sequence[1]

Found(draw, sequence) ==
    [draw |-> draw, sequence |-> sequence,
     common_difference |-> IF Len(sequence) >= 2 THEN sequence[2] - sequence[1] ELSE 0,
     length |-> Len(sequence)]

\* the sequences found in one draw: draw_nums[i:j] for the pairs in order
FoundAt(draw, pairs) ==
    [k \in 1..Len(pairs) |-> Found(draw, SubSeq(draw, pairs[k][1] + 1, pairs[k][2]))]

FoundInDraw(draw, min_length) ==
    IF Len(draw) < min_length THEN <<>>
    ELSE FoundAt(draw, SelectSeq(SlicePairs(Len(draw), min_length),
                    LAMBDA ij : IsArithmetic(SubSeq(draw, ij[1] + 1, ij[2]))))

RECURSIVE FoundInDraws(_, _)
FoundInDraws(draws_, min_length) ==
    IF draws_ = <<>> THEN <<>>
    ELSE FoundInDraw(Head(draws_), min_length) \o FoundInDraws(Tail(draws_), min_length)

\* all_differences.extend(differences)
RECURSIVE AllDifferences(_)
AllDifferences(found) ==
    IF found = <<>> THEN <<>>
    ELSE [k \in 1..(Head(found).length - 1) |-> Head(found).common_difference]
             \o AllDifferences(Tail(found))

ArithmeticStats(sequences_found) ==
    [total_sequences |-> Len(sequences_found), sequences_found |-> sequences_found,
     common_differences |-> CountNumbers(AllDifferences(sequences_found), <<>>)]

\* detect_arithmetic_sequences(draws, min_length), min_length >= 1
detect_arithmetic_sequences(draws_, min_length) ==
    IF draws_ = <<>> \/ Len(draws_) < min_length
        THEN [total_sequences |-> 0, sequences_found |-> <<>>, common_differences |-> <<>>]
    ELSE ArithmeticStats(FoundInDraws(draws_, min_length))

ConsecutiveValues == {1, 2, 3, 5}

MinLengths == {1, 2, 3}

DrawLists == {<<1, 2, 3>>, <<1, 3, 5, 6>>, <<4, 4>>, <<7>>}

DetectConsecutiveNumbers(draw_sequence, min_length) ==
    /\ call.op = "none"
    /\ call' = [op |-> "detect_consecutive_numbers", draw_sequence |-> draw_sequence,
                min_length |-> min_length,
                ret |-> detect_consecutive_numbers(draw_sequence, min_length)]
    /\ UNCHANGED <<draws, today, now, raw, update_log>>

DetectArithmeticSequences(draws_, min_length) ==
    /\ call.op = "none"
    /\ call' = [op |-> "detect_arithmetic_sequences", draws |-> draws_,
                min_length |-> min_length,
                ret |-> detect_arithmetic_sequences(draws_, min_length)]
    /\ UNCHANGED <<draws, today, now, raw, update_log>>

-----------------------------------------------------------------------------
(* analysis/patterns.py: detect_digit_patterns, detect_sum_patterns and the *)
(* body of analyze_patterns after the repository has answered; api/main.py: *)
(* get_pattern_analysis.  digit_sums, digit_products and most_common_sums   *)
(* are left out.                                                             *)

MaxRows == 2

\* [int(d) for d in str(number)]: the sign of a negative number is no digit
DigitsOf(number) ==
    IntCollect(IntEach([i \in 1..Len(str(number)) |-> <<str(number)[i]>>]))

\* all_digits.extend(digits), number by number: [exc, v]
RECURSIVE DigitsOfAll(_, _)
DigitsOfAll(draw_sequence, all_digits) ==
    IF draw_sequence = <<>> THEN Value(all_digits)
    ELSE IF DigitsOf(Head(draw_sequence)).exc # "none" THEN ValueError
    ELSE DigitsOfAll(Tail(draw_sequence), all_digits \o DigitsOf(Head(draw_sequence)).v)

Repeating(digit_frequencies) ==
    [digit \in {d \in DOMAIN digit_frequencies : digit_frequencies[d] > 1} |->
        digit_frequencies[digit]]

DigitStats(all_digits) ==
    IF all_digits.exc # "none" THEN [exc |-> all_digits.exc, ret |-> <<>>]
    ELSE [exc |-> "none",
          ret |-> [digit_frequencies |-> CountNumbers(all_digits.v, <<>>),
                   repeating_digits |-> Repeating(CountNumbers(all_digits.v, <<>>))]]

\* detect_digit_patterns(draw_sequence): [exc, ret]
detect_digit_patterns(draw_sequence) ==
    IF draw_sequence = <<>>
        THEN [exc |-> "none", ret |-> [digit_frequencies |-> <<>>, repeating_digits |-> <<>>]]
    ELSE DigitStats(DigitsOfAll(draw_sequence, <<>>))

\* sum(draw_nums)
RECURSIVE sum(_)
sum(numbers) == IF numbers = <<>> THEN 0 ELSE Head(numbers) + sum(Tail(numbers))

\* sums.append(draw_sum) for every draw that is not empty
Sums(draws_) ==
    [i \in 1..Len(SelectSeq(draws_, NonEmpty)) |-> sum(SelectSeq(draws_, NonEmpty)[i])]

SumStats(sums) ==
    IF sums = <<>> THEN [sum_range |-> <<0, 0>>, sum_distribution |-> <<>>]
    ELSE [sum_range |-> <<MinOf(Range(sums)), MaxOf(Range(sums))>>,
          sum_distribution |-> CountNumbers(sums, <<>>)]

\* detect_sum_patterns(draws)
detect_sum_patterns(draws_) == SumStats(Sums(draws_))

\* numbers = [int(x.strip()) for x in draw['numbers'].split(',') if x.strip()]:
\* [exc, v]
NumbersOf(numbers) ==
    IntCollect(IntEach(SelectSeq(StripEach(split(numbers, ",")), NonEmpty)))

\* the draws whose numbers parse, as lists of numbers; the others are skipped
\* by "except (ValueError, TypeError): continue"
ParsedRows(rows) == SelectSeq(rows, LAMBDA draw : NumbersOf(draw.numbers).exc = "none")

NumberLists(rows) ==
    [i \in 1..Len(ParsedRows(rows)) |-> NumbersOf(ParsedRows(rows)[i].numbers).v]

RECURSIVE Extend(_)
Extend(lists) == IF lists = <<>> THEN <<>> ELSE Head(lists) \o Extend(Tail(lists))

PatternsResult(game_type, window_days, rows, all_numbers, lists, digits) ==
    IF digits.exc # "none" THEN [exc |-> digits.exc, ret |-> <<>>]
    ELSE [exc |-> "none",
          ret |-> [game_type |-> game_type, window_days |-> window_days,
                   total_draws_analyzed |-> Len(rows),
                   total_numbers_analyzed |-> Len(all_numbers),
                   consecutive_numbers |-> detect_consecutive_numbers(all_numbers, 2),
                   arithmetic_sequences |-> detect_arithmetic_sequences(lists, 3),
                   digit_patterns |-> digits.ret,
                   sum_patterns |-> detect_sum_patterns(lists)]]

PatternsOfNumbers(game_type, window_days, rows, all_numbers, lists) ==
    IF all_numbers = <<>>
        THEN [exc |-> "none", ret |-> [error |-> "No valid numbers found in draws"]]
    ELSE PatternsResult(game_type, window_days, rows, all_numbers, lists,
                        detect_digit_patterns(all_numbers))

\* analyze_patterns from "if not draws:" on; rows is what repo.list returned
PatternsOf(game_type, window_days, rows) ==
    IF rows = <<>> THEN [exc |-> "none", ret |-> [error |-> "No draws found for analysis"]]
    ELSE PatternsOfNumbers(game_type, window_days, rows,
                           Extend(NumberLists(rows)), NumberLists(rows))

\* an endpoint that answers 200 to an error dictionary
get_pattern_analysis_ok(result) ==
    IF result.exc # "none" THEN [status |-> 500, body |-> result.exc]
    ELSE [status |-> 200, body |-> result.ret]

\* GET /api/v1/analysis/patterns: the answer to a result of analyze_patterns
get_pattern_analysis(result) ==
    IF result.exc # "none" THEN [status |-> 500, body |-> result.exc]
    ELSE IF "error" \in DOMAIN result.ret THEN [status |-> 404, body |-> result.ret.error]
    ELSE [status |-> 200, body |-> result.ret]

\* what a repository may hold in the column numbers: lists of numbers as the
\* importers write them, with and without spaces, and text that is no list
Text(s) == [i \in 1..Len(s) |-> SubSeq(s, i, i)]

RowNumbers ==
    {Text("1,2,3"), Text("10,20,30,40"), Text(" 4 , 5,"), Text(""),
     Text("invalid"), Text("1,2,x")}

Rows == SeqsUpTo({[numbers |-> n] : n \in RowNumbers}, MaxRows)

\* a request of the endpoint, the repository answering with rows
GetPatternAnalysis(rows, game_type, window_days) ==
    /\ call.op = "none"
    /\ call' = [op |-> "get_pattern_analysis", rows |-> rows, game_type |-> game_type,
                window_days |-> window_days,
                result |-> PatternsOf(game_type, window_days, rows),
                response |-> get_pattern_analysis(PatternsOf(game_type, window_days, rows))]
    /\ UNCHANGED <<draws, today, now, raw, update_log>>

NextAnalysis ==
    \/ /\ call.op = "none"
       /\ \E freq \in FreqDicts, expected_each \in ExpectedEachs, top_k \in 0..MaxTopK :
             GetHotColdNumbers(freq, expected_each, top_k)
    \/ /\ call.op = "none"
       /\ \E draw_sequence \in SeqsUpTo(SequenceValues, MaxSeq), test_type \in TestTypes :
             RunsTest(draw_sequence, test_type)
    \/ /\ call.op = "none"
       /\ \E draw_sequence \in Samples, lags \in LagLists, max_lags \in MaxLagsValues,
             outcome \in [LagValues \ {0} -> Outcomes] :
             AutocorrelationTest(draw_sequence, lags, max_lags, outcome)
    \/ /\ call.op = "none"
       /\ \E draw_sequence \in SeqsUpTo(ConsecutiveValues, MaxNumbers),
             min_length \in MinLengths :
             DetectConsecutiveNumbers(draw_sequence, min_length)
    \/ /\ call.op = "none"
       /\ \E draws_ \in SeqsUpTo(DrawLists, MaxDraws), min_length \in MinLengths :
             DetectArithmeticSequences(draws_, min_length)
    \/ /\ call.op = "none"
       /\ \E rows \in Rows, window_days \in {None, Some(365)} :
             GetPatternAnalysis(rows, "lotto", window_days)
    \/ Return

SpecAnalysis == Init /\ [][NextAnalysis]_vars

-----------------------------------------------------------------------------
(* analysis/randomness.py: analyze_number_randomness.  The floats of the   *)
(* chi-square test, the Kolmogorov-Smirnov test and the entropy are left    *)
(* out: each of the three entries carries the number of observations it is  *)
(* computed from.                                                            *)

MaxRecent == 100
MaxLags == 10

\* count_draws(session, game_type, date_from, date_to, window_days, game_provider)
count_draws(db, game_type, date_from, date_to, window_days, game_provider, day) ==
    Cardinality(FreqSelect(db, game_type, game_provider,
                           DateFrom(date_from, DateTo(date_to, day), window_days),
                           DateTo(date_to, day)))

\* [int(x.strip()) for x in draw['numbers'].split(',') if x.strip()]
StrippedInts(numbers) == IntValues(SelectSeq(StripEach(split(numbers, ",")), NonEmpty))

\* draw_sequences.extend(numbers) for every draw of recent_draws
RECURSIVE Flatten(_)
Flatten(recent_draws) ==
    IF recent_draws = <<>> THEN <<>>
    ELSE StrippedInts(Head(recent_draws).numbers) \o Flatten(Tail(recent_draws))

\* sum(freq_data.values())
RECURSIVE SumValues(_, _)
SumValues(freq_data, keys) ==
    IF keys = {} THEN 0
    ELSE freq_data[MinOf(keys)] + SumValues(freq_data, keys \ {MinOf(keys)})

NumbersDrawn(freq_data) == {num \in DOMAIN freq_data : freq_data[num] > 0}

\* the dictionary analyze_number_randomness returns when it has all its parts
RandomnessResult(game_type, total_draws, freq_data, draw_sequences, outcome) ==
    [game_type |-> game_type,
     sample_size |-> [total_draws |-> total_draws,
                      total_observations |-> SumValues(freq_data, DOMAIN freq_data),
                      numbers_covered |-> Cardinality(NumbersDrawn(freq_data))],
     chi_square_test |-> [observations |-> SumValues(freq_data, DOMAIN freq_data)],
     kolmogorov_smirnov_test |-> [observations |-> SumValues(freq_data, DOMAIN freq_data)],
     runs_test_median |-> runs_test(draw_sequences, "median").ret,
     runs_test_even_odd |-> runs_test(draw_sequences, "even_odd").ret,
     runs_test_high_low |-> runs_test(draw_sequences, "high_low").ret,
     autocorrelation_analysis |-> autocorrelation_test(draw_sequences, None, MaxLags, outcome),
     entropy |-> [observations |-> SumValues(freq_data, DOMAIN freq_data)],
     summary |-> [data_quality |-> IF total_draws >= 100 THEN "Good" ELSE "Limited sample"]]

\* the two branches of "if recent_draws:"; the else branch assigns the three
\* runs tests and leaves the local name autocorrelation unbound, so that the
\* return statement raises UnboundLocalError
RandomnessOf(game_type, total_draws, freq_data, recent_draws, outcome) ==
    IF recent_draws # <<>>
        THEN [exc |-> "none",
              ret |-> RandomnessResult(game_type, total_draws, freq_data,
                                       Flatten(recent_draws), outcome)]
    ELSE [exc |-> "UnboundLocalError", ret |-> <<>>]

\* analyze_number_randomness(session, game_type, None, None, window_days, None)
\* called on the day `day`: [exc, ret]
analyze_number_randomness(db, game_type, window_days, day, outcome) ==
    RandomnessOf(game_type,
                 count_draws(db, game_type, None, None, window_days, None, day),
                 calculate_frequency(db, game_type, None, None, window_days, None, day),
                 list(db, [game_type |-> Some(game_type), game_provider |-> None,
                           date_from |-> None, date_to |-> None], MaxRecent, 0),
                 outcome)

AnalyzeNumberRandomness(game_type, window_days, outcome) ==
    /\ call' = [op |-> "analyze_number_randomness", game_type |-> game_type,
                window_days |-> window_days,
                exc |-> analyze_number_randomness(draws, game_type, window_days, today,
                                                  [lag \in 1..MaxLags |-> outcome]).exc,
                ret |-> analyze_number_randomness(draws, game_type, window_days, today,
                                                  [lag \in 1..MaxLags |-> outcome]).ret]
    /\ UNCHANGED <<draws, today, now, raw, update_log>>

MaxPatternDraws == 1000

\* analyze_patterns(session, game_type, window_days): [exc, ret]
analyze_patterns(db, game_type, window_days) ==
    PatternsOf(game_type, window_days,
               list(db, [game_type |-> Some(game_type), game_provider |-> None,
                         date_from |-> None, date_to |-> None], MaxPatternDraws, 0))

AnalyzePatterns(game_type, window_days) ==
    /\ call' = [op |-> "analyze_patterns", game_type |-> game_type,
                window_days |-> window_days,
                exc |-> analyze_patterns(draws, game_type, window_days).exc,
                ret |-> analyze_patterns(draws, game_type, window_days).ret]
    /\ UNCHANGED <<draws, today, now, raw, update_log>>

NextStoreAnalysis ==
    \/ NextQuery
    \/ /\ call.op = "none"
       /\ \E game_type \in {"lotto", "lotto_plus"}, window_days \in Windows :
             AnalyzePatterns(game_type, window_days)
    \/ /\ call.op = "none"
       /\ \E game_type \in {"lotto", "lotto_plus"}, window_days \in Windows,
             outcome \in Outcomes :
             AnalyzeNumberRandomness(game_type, window_days, outcome)

SpecStoreAnalysis == Init /\ [][NextStoreAnalysis]_vars

\* C14: for every interleaving of two concurrent runs of the importers over
\* the same lines against the same table, both runs return normally and the
\* table ends with each valid new draw_number stored exactly once.
C14_ConcurrentImports ==
    (call.op = "concurrent_imports" /\ \A p \in Runs : call.runs[p].pc = "done") =>
        /\ \A p \in Runs : call.runs[p].exc = "none"
        /\ \A i \in AcceptedOf(call) :
              Cardinality({r \in draws :
                  r.draw_number = ParsedOf(call)[i].draw_number}) = 1

\* C20: if the download of update_from_mbnet fails, the startup of the
\* application still completes, and the draw store, the raw-file archive and
\* the update log are as they were before the attempt, also while the
\* application serves requests.
C20_FailedDownload ==
    (call.op = "lifespan" /\ ~call.download.ok) =>
        /\ call.startup = "complete"
        /\ draws = call.before.draws
        /\ raw = call.before.raw
        /\ update_log = call.before.update_log

\* a start whose download fails, with draws stored, files archived and the
\* log written by an earlier start, and a request answered after it
C20_Witness ==
    /\ call.op = "lifespan" /\ ~call.download.ok
    /\ call.exc = "RuntimeError"
    /\ draws # {} /\ DOMAIN raw # {} /\ update_log # <<>>
    /\ call.response # <<>>
    /\ call.response[1].total = Cardinality(draws)

-----------------------------------------------------------------------------
(* Claims about the analysis functions *)

CountOf(freq, k) == (CHOOSE i \in 1..Len(freq) : freq[i][1] = k)

Ascending(s) == \A i \in 1..(Len(s) - 1) : s[i] < s[i + 1]

\* C11: for every top_k >= 0 there are at most top_k hot numbers, each with
\* a count above expected_each, and at most top_k cold numbers, each with a
\* count below expected_each; the two lists are disjoint and ascending.
C11_HotCold ==
    call.op = "get_hot_cold_numbers" =>
        LET hot == call.ret.hot
            cold == call.ret.cold
            e == call.expected_each
            v(k) == call.freq[CountOf(call.freq, k)][2]
        IN  /\ Len(hot) <= call.top_k
            /\ \A i \in 1..Len(hot) : v(hot[i]) * e.den > e.num
            /\ Len(cold) <= call.top_k
            /\ \A i \in 1..Len(cold) : v(cold[i]) * e.den < e.num
            /\ Range(hot) \cap Range(cold) = {}
            /\ Ascending(hot) /\ Ascending(cold)

\* C13: runs_test raises ValueError for every test_type other than 'median',
\* 'even_odd', 'high_low' and 'ascending', whatever the sequence is.
C13_RunsTestRaises ==
    (call.op = "runs_test"
        /\ call.test_type \notin {"median", "even_odd", "high_low", "ascending"})
    => call.exc = "ValueError"

\* the lags the result of autocorrelation_test reports
ReportedLags(ret) ==
    Range(ret.autocorrelations) \cup Range(ret.significant_lags)
        \cup Range(ret.p_values) \cup Range(ret.confidence_intervals)

\* C18: every lag autocorrelation_test reports for a sequence of length n
\* satisfies 1 <= lag < n and lag <= max(1, n div 3), and lag <= max_lags
\* when no lags are supplied; for n < 2 the result has no lags and
\* overall_significance is false.
C18_ReportedLags ==
    call.op = "autocorrelation_test" =>
        LET n == Len(call.draw_sequence)
            third == IF n \div 3 > 1 THEN n \div 3 ELSE 1
        IN  /\ \A lag \in ReportedLags(call.ret) :
                /\ 1 <= lag /\ lag < n
                /\ lag <= third
                /\ call.lags = <<>> => lag <= call.max_lags
            /\ n < 2 => /\ ReportedLags(call.ret) = {}
                        /\ ~call.ret.overall_significance

\* a call with lags 3 and 2 supplied for 7 values: only lag 2 is reported
C18_Witness ==
    /\ call.op = "autocorrelation_test"
    /\ Len(call.draw_sequence) = 7
    /\ call.lags = <<(<<3, 2>>)>>
    /\ call.outcome[2] = "significant"
    /\ ReportedLags(call.ret) = {2}
    /\ call.ret.overall_significance

\* C12: for every store, one with no draws of the requested game_type
\* included, analyze_number_randomness returns without raising a dictionary
\* that holds chi_square_test, kolmogorov_smirnov_test, runs_test_median,
\* runs_test_even_odd, runs_test_high_low, autocorrelation_analysis, entropy
\* and summary.
C12_RandomnessReturns ==
    call.op = "analyze_number_randomness" =>
        /\ call.exc = "none"
        /\ {"chi_square_test", "kolmogorov_smirnov_test", "runs_test_median",
            "runs_test_even_odd", "runs_test_high_low", "autocorrelation_analysis",
            "entropy", "summary"} \subseteq DOMAIN call.ret

\* the contiguous slices of a draw, as pairs of positions, that have at least
\* min_length elements and a constant difference between neighbours
ArithmeticSlices(draw, min_length) ==
    {ij \in (1..Len(draw)) \X (1..Len(draw)) :
        /\ ij[2] - ij[1] + 1 >= min_length
        /\ \A k \in ij[1]..(ij[2] - 2) :
              draw[k + 2] - draw[k + 1] = draw[ij[1] + 1] - draw[ij[1]]}

\* C16: detect_arithmetic_sequences reports every contiguous slice of a draw
\* that has at least min_length elements and a constant difference between
\* neighbouring elements, and total_sequences is the number of these slices.
C16_ArithmeticSlices ==
    call.op = "detect_arithmetic_sequences" =>
        /\ \A d \in 1..Len(call.draws) :
              \A ij \in ArithmeticSlices(call.draws[d], call.min_length) :
                  \E k \in 1..Len(call.ret.sequences_found) :
                      /\ call.ret.sequences_found[k].draw = call.draws[d]
                      /\ call.ret.sequences_found[k].sequence =
                             SubSeq(call.draws[d], ij[1], ij[2])
        /\ LET RECURSIVE Total(_)
               Total(d) ==
                   IF d = 0 THEN 0
                   ELSE Cardinality(ArithmeticSlices(call.draws[d], call.min_length))
                            + Total(d - 1)
           IN  call.ret.total_sequences = Total(Len(call.draws))

\* the maximal runs of consecutive integers among the values of a sequence,
\* as pairs of their first and last value
MaximalRuns(values) ==
    {ab \in values \X values :
        /\ \A x \in ab[1]..ab[2] : x \in values
        /\ ab[1] - 1 \notin values
        /\ ab[2] + 1 \notin values}

\* C17: detect_consecutive_numbers returns exactly the maximal runs of
\* consecutive integers among the input values that have at least min_length
\* elements: every returned sequence is one of these runs, every such run is
\* returned, and total_sequences and max_length are the number and
\* greatest length of the returned sequences (0 when there are none).
C17_MaximalRuns ==
    call.op = "detect_consecutive_numbers" =>
        LET sequences == call.ret.sequences
            runs == {ab \in MaximalRuns(Range(call.draw_sequence)) :
                        ab[2] - ab[1] + 1 >= call.min_length}
        IN  /\ \A i \in 1..Len(sequences) :
                  /\ <<sequences[i][1], sequences[i][Len(sequences[i])]>> \in runs
                  /\ \A k \in 1..(Len(sequences[i]) - 1) :
                        sequences[i][k + 1] = sequences[i][k] + 1
            /\ \A ab \in runs : \E i \in 1..Len(sequences) : sequences[i][1] = ab[1]
            /\ call.ret.total_sequences = Len(sequences)
            /\ call.ret.max_length =
                   MaxOf({0} \cup {Len(sequences[i]) : i \in 1..Len(sequences)})

\* the stored draws of a game_type dated from `days` days before today on
Recent(game_type, days) ==
    {r \in draws : r.game_type = game_type /\ ~DateLT(r.draw_date, AddDays(today, 0 - days))}

\* C15: analyze_patterns analyses only draws whose draw_date lies within the
\* last window_days days when window_days, 1 or more, is given: it reports no
\* more draws than the store holds for the game_type from today - window_days
\* on (the day today - window_days itself counted in).
C15_PatternsWindow ==
    (/\ call.op = "analyze_patterns"
     /\ call.window_days # <<>>
     /\ call.window_days[1] >= 1
     /\ call.exc = "none"
     /\ "error" \notin DOMAIN call.ret)
    => call.ret.total_draws_analyzed
           <= Cardinality(Recent(call.game_type, call.window_days[1]))

\* a draw has parseable numbers: its text is a list of integers, one at least
Parseable(draw) ==
    /\ NumbersOf(draw.numbers).exc = "none"
    /\ NumbersOf(draw.numbers).v # <<>>

-----------------------------------------------------------------------------
(* analysis/visualizations.py: analyze_streaks.  df is the sequence of its  *)
(* rows, each a record of a date and the numbers of a draw; all_numbers is  *)
(* 1..n, which a Python set of small ints is iterated in.                   *)

MinStreakDraws == 5

HotStreak == 2

ColdStreak == 5

TopStreaks == 5

StreakSample == 10

MaxStreakNumber == 2

MaxStreakDraws == 5

\* df.sort_values('date'): the rows in the order of their dates
EarlierRows(df, i) ==
    Cardinality({j \in 1..Len(df) :
        \/ DateLT(df[j].date, df[i].date)
        \/ df[j].date = df[i].date /\ j < i})

RowAt(df, p) == df[CHOOSE i \in 1..Len(df) : EarlierRows(df, i) = p - 1]

sort_values(df) == [p \in 1..Len(df) |-> RowAt(df, p)]

\* df.sort_values('date')['numbers'].tolist()
NumbersColumn(df) == [i \in 1..Len(df) |-> df[i].numbers]

NoStreak ==
    [current_streak |-> 0, max_appearance_streak |-> 0,
     max_absence_streak |-> 0, current_absence |-> 0]

\* a loop that keeps counting the absence through an appearance
StreakStep_no_reset(st, present) ==
    IF present
    THEN [st EXCEPT !.current_streak = @ + 1,
                    !.max_appearance_streak = MaxOf({@, st.current_streak + 1})]
    ELSE [st EXCEPT !.current_absence = @ + 1,
                    !.max_absence_streak = MaxOf({@, st.current_absence + 1}),
                    !.current_streak = 0]

\* one turn of `for draw in draws_list`
StreakStep(st, present) ==
    IF present
    THEN [st EXCEPT !.current_streak = @ + 1,
                    !.max_appearance_streak = MaxOf({@, st.current_streak + 1}),
                    !.max_absence_streak = MaxOf({@, st.current_absence}),
                    !.current_absence = 0]
    ELSE [st EXCEPT !.current_absence = @ + 1,
                    !.max_absence_streak = MaxOf({@, st.current_absence + 1}),
                    !.max_appearance_streak = MaxOf({@, st.current_streak}),
                    !.current_streak = 0]

RECURSIVE StreakLoop(_, _, _)
StreakLoop(num, draws_list, st) ==
    IF draws_list = <<>> THEN st
    ELSE StreakLoop(num, Tail(draws_list),
                    StreakStep(st, num \in Range(Head(draws_list))))

\* streaks[num] = {...}
StreakEntry(num, last_draw, st) ==
    [number |-> num,
     max_appearance_streak |-> st.max_appearance_streak,
     max_absence_streak |-> st.max_absence_streak,
     current_appearance_streak |-> st.current_streak,
     current_absence_streak |-> st.current_absence,
     in_hot_streak |-> (num \in Range(last_draw) /\ st.current_streak >= HotStreak),
     in_cold_streak |-> (num \notin Range(last_draw) /\ st.current_absence >= ColdStreak)]

Streaks(draws_list, n) ==
    [num \in 1..n |->
        StreakEntry(num, draws_list[Len(draws_list)],
                    StreakLoop(num, draws_list, NoStreak))]

\* list(streaks.values())
StreakValues(streaks) == [num \in 1..Cardinality(DOMAIN streaks) |-> streaks[num]]

InHotStreak(e) == e.in_hot_streak

InColdStreak(e) == e.in_cold_streak

\* sorted(items, key=lambda x: x[key], reverse=True): the larger first, the
\* equal in the order they come in
LargerIn(items, key, i) ==
    Cardinality({j \in 1..Len(items) :
        \/ items[j][key] > items[i][key]
        \/ items[j][key] = items[i][key] /\ j < i})

sorted_reverse(items, key) ==
    [p \in 1..Len(items) |->
        items[CHOOSE i \in 1..Len(items) : LargerIn(items, key, i) = p - 1]]

\* max(streaks.values(), key=lambda x: x[key]): the first of the largest
max_by(items, key) ==
    items[CHOOSE i \in 1..Len(items) :
        /\ \A j \in 1..Len(items) : items[j][key] <= items[i][key]
        /\ \A j \in 1..(i - 1) : items[j][key] < items[i][key]]

StreaksResult(streaks, values) ==
    [error |-> "none",
     hot_streak_numbers |->
        SliceTo(sorted_reverse(SelectSeq(values, InHotStreak),
                               "current_appearance_streak"), TopStreaks),
     cold_streak_numbers |->
        SliceTo(sorted_reverse(SelectSeq(values, InColdStreak),
                               "current_absence_streak"), TopStreaks),
     longest_appearance_streak |-> max_by(values, "max_appearance_streak"),
     longest_absence_streak |-> max_by(values, "max_absence_streak"),
     all_streaks |-> [num \in 1..MinOf({StreakSample, Len(values)}) |-> streaks[num]]]

StreaksOf(draws_list, streaks) ==
    [exc |-> "none", draws_list |-> draws_list, streaks |-> streaks,
     ret |-> StreaksResult(streaks, StreakValues(streaks))]

StreaksOfList(draws_list, n) ==
    IF Len(draws_list) < MinStreakDraws
        THEN [exc |-> "none", draws_list |-> draws_list, streaks |-> <<>>,
              ret |-> [error |-> "Insufficient data for streak analysis"]]
    ELSE IF n = 0
        THEN [exc |-> "ValueError", draws_list |-> draws_list, streaks |-> <<>>,
              ret |-> [error |-> "none"]]
    ELSE StreaksOf(draws_list, Streaks(draws_list, n))

\* analyze_streaks(df, all_numbers), all_numbers being set(range(1, n + 1));
\* max() of no streaks raises ValueError
analyze_streaks(df, n) == StreaksOfList(NumbersColumn(sort_values(df)), n)

\* the draws of the frames: the numbers 1 and 2 and a number that is not
\* looked for
StreakDraws == {<<1>>, <<2>>, <<1, 2>>, <<49>>}

\* the dates of the rows of a frame: ascending, or descending
DateOrders(k) ==
    {[i \in 1..k |-> AddDays(Day1, i - 1)], [i \in 1..k |-> AddDays(Day1, k - i)]}

Frame(dates, numbers) ==
    [i \in 1..Len(dates) |-> [date |-> dates[i], numbers |-> numbers[i]]]

Frames ==
    UNION {{Frame(dates, numbers) : dates \in DateOrders(k), numbers \in [1..k -> StreakDraws]}
              : k \in 0..MaxStreakDraws}

AnalyzeStreaks(df, n) ==
    /\ LET r == analyze_streaks(df, n)
       IN  call' = [op |-> "analyze_streaks", df |-> df, all_numbers |-> n,
                    exc |-> r.exc, draws_list |-> r.draws_list,
                    streaks |-> r.streaks, ret |-> r.ret]
    /\ UNCHANGED <<draws, today, now, raw, update_log>>

-----------------------------------------------------------------------------
(* analysis/visualizations.py: calculate_number_correlations, of the rows   *)
(* repo.list answers with.  A float is a record [num, den2] that stands for *)
(* num / sqrt(den2); den2 = 0 is nan.  The p-values and the average, which  *)
(* need the t-distribution and a sum of roots, are left out.                *)

MinCorrDraws == 5

MaxSignificantPairs == 50

MaxTopPairs == 10

MaxCorrRows == 5

NaN == [num |-> 0, den2 |-> 0]

IsNaN(x) == x.den2 = 0

\* the sign of x times its square, over a common denominator with y
Signed(x, y) == x.num * (IF x.num < 0 THEN 0 - x.num ELSE x.num) * y.den2

\* x < y and x == y of two floats that are not nan
FloatLess(x, y) == Signed(x, y) < Signed(y, x)

FloatEqual(x, y) == ~IsNaN(x) /\ ~IsNaN(y) /\ Signed(x, y) = Signed(y, x)

\* abs(x) >= y, for y >= 0; False when x is nan
AbsAtLeast(x, y) == ~IsNaN(x) /\ x.num * x.num * y.den2 >= y.num * y.num * x.den2

\* sorted(set(num for draw in draw_numbers for num in draw))
RECURSIVE Ascend(_)
Ascend(S) == IF S = {} THEN <<>> ELSE <<MinOf(S)>> \o Ascend(S \ {MinOf(S)})

AllNumbers(draw_numbers) == Ascend(UNION {Range(draw_numbers[d]) : d \in 1..Len(draw_numbers)})

\* the number of draws that hold every number of S
Holding(draw_numbers, S) ==
    Cardinality({d \in 1..Len(draw_numbers) : S \subseteq Range(draw_numbers[d])})

\* Pearson's coefficient of two columns of 0 and 1, from the counts n1 and n2
\* of their ones and n11 of the rows where both are 1; nan for a column that
\* is constant
Pearson(n, n1, n2, n11) ==
    [num |-> n * n11 - n1 * n2, den2 |-> n1 * (n - n1) * n2 * (n - n2)]

\* np.corrcoef(presence_matrix.T)[i, j]
corrcoef(draw_numbers, num1, num2) ==
    Pearson(Len(draw_numbers), Holding(draw_numbers, {num1}),
            Holding(draw_numbers, {num2}), Holding(draw_numbers, {num1, num2}))

\* for i in range(len(all_numbers)): for j in range(i + 1, len(all_numbers))
RECURSIVE PairsFrom(_, _, _)
PairsFrom(all_numbers, i, j) ==
    IF i > Len(all_numbers) THEN <<>>
    ELSE IF j > Len(all_numbers) THEN PairsFrom(all_numbers, i + 1, i + 2)
    ELSE <<<<all_numbers[i], all_numbers[j]>>>> \o PairsFrom(all_numbers, i, j + 1)

PairEntry(draw_numbers, pair) ==
    [number1 |-> pair[1], number2 |-> pair[2],
     correlation |-> corrcoef(draw_numbers, pair[1], pair[2])]

PairEntries(draw_numbers, pairs) ==
    [p \in 1..Len(pairs) |-> PairEntry(draw_numbers, pairs[p])]

\* significant_pairs.sort(key=lambda x: abs(x["correlation"]), reverse=True)
StrongerIn(entries, i) ==
    Cardinality({j \in 1..Len(entries) :
        \/ /\ AbsAtLeast(entries[j].correlation, entries[i].correlation)
           /\ ~AbsAtLeast(entries[i].correlation, entries[j].correlation)
        \/ /\ AbsAtLeast(entries[j].correlation, entries[i].correlation)
           /\ AbsAtLeast(entries[i].correlation, entries[j].correlation)
           /\ j < i})

sort_by_strength(entries) ==
    [p \in 1..Len(entries) |->
        entries[CHOOSE i \in 1..Len(entries) : StrongerIn(entries, i) = p - 1]]

\* np.min(corr_values), np.max(corr_values): nan when a value is nan
np_min(values) ==
    IF \E i \in 1..Len(values) : IsNaN(values[i]) THEN NaN
    ELSE values[CHOOSE i \in 1..Len(values) :
                    \A j \in 1..Len(values) : ~FloatLess(values[j], values[i])]

np_max(values) ==
    IF \E i \in 1..Len(values) : IsNaN(values[i]) THEN NaN
    ELSE values[CHOOSE i \in 1..Len(values) :
                    \A j \in 1..Len(values) : ~FloatLess(values[i], values[j])]

\* the dictionary returned; min_correlation is, by line 127, the least of
\* the coefficients when the dictionary is built
CorrelationsResult(game_type, draw_numbers, all_numbers, significant_pairs, max_correlation, min_correlation) ==
    [error |-> "none", game_type |-> game_type,
     total_draws_analyzed |-> Len(draw_numbers),
     total_numbers |-> Len(all_numbers),
     significant_pairs |-> SliceTo(significant_pairs, MaxSignificantPairs),
     top_pairs |-> SliceTo(significant_pairs, MaxTopPairs),
     summary_stats |-> [max_correlation |-> max_correlation,
                        min_correlation |-> min_correlation],
     analysis_metadata |-> [min_correlation_threshold |-> min_correlation,
                            correlation_method |-> "pearson"]]

CorrelationsOfValues(game_type, draw_numbers, all_numbers, entries, min_correlation) ==
    CorrelationsResult(game_type, draw_numbers, all_numbers,
        sort_by_strength(SelectSeq(entries,
            LAMBDA e : AbsAtLeast(e.correlation, min_correlation))),
        np_max([p \in 1..Len(entries) |-> entries[p].correlation]),
        np_min([p \in 1..Len(entries) |-> entries[p].correlation]))

\* a matrix of one number is a scalar: np.triu_indices_from raises ValueError
CorrelationsOfNumbers(game_type, draw_numbers, all_numbers, min_correlation) ==
    IF Len(all_numbers) < 2 THEN [exc |-> "ValueError", ret |-> [error |-> "none"]]
    ELSE [exc |-> "none",
          ret |-> CorrelationsOfValues(game_type, draw_numbers, all_numbers,
                      PairEntries(draw_numbers, PairsFrom(all_numbers, 1, 2)),
                      min_correlation)]

CorrelationsOf(game_type, draw_numbers, min_correlation) ==
    IF Len(draw_numbers) < MinCorrDraws
    THEN [exc |-> "none",
          ret |-> [error |-> "Insufficient draw data for correlation analysis (need at least 5 draws)"]]
    ELSE CorrelationsOfNumbers(game_type, draw_numbers, AllNumbers(draw_numbers),
                               min_correlation)

\* calculate_number_correlations(session, game_type, window_days,
\* min_correlation), rows being repo.list(limit=5000, game_type=game_type);
\* window_days is not read
calculate_number_correlations(rows, game_type, min_correlation) ==
    IF rows = <<>>
    THEN [exc |-> "none", ret |-> [error |-> "No draws found for correlation analysis"]]
    ELSE CorrelationsOf(game_type, NumberLists(rows), min_correlation)

\* the column numbers of the rows, and the thresholds 0.05 and 0.5
CorrRowNumbers == {Text("1,2"), Text("1,3"), Text("2"), Text("x")}

CorrRows == SeqsUpTo({[numbers |-> n] : n \in CorrRowNumbers}, MaxCorrRows)

Thresholds == {[num |-> 1, den2 |-> 400], [num |-> 1, den2 |-> 4]}

CalculateNumberCorrelations(rows, min_correlation) ==
    /\ LET r == calculate_number_correlations(rows, "lotto", min_correlation)
       IN  call' = [op |-> "calculate_number_correlations", rows |-> rows,
                    min_correlation |-> min_correlation, exc |-> r.exc, ret |-> r.ret]
    /\ UNCHANGED <<draws, today, now, raw, update_log>>

NextVisual ==
    \/ /\ call.op = "none"
       /\ \E df \in Frames, n \in {0, MaxStreakNumber} : AnalyzeStreaks(df, n)
    \/ /\ call.op = "none"
       /\ \E rows \in CorrRows, min_correlation \in Thresholds :
             CalculateNumberCorrelations(rows, min_correlation)
    \/ Return

SpecVisual == Init /\ [][NextVisual]_vars

-----------------------------------------------------------------------------
(* api/main.py: generator_partial.  The frequencies are read in one step;   *)
(* every turn of the while loop is a step of its own, random.choices being  *)
(* a choice among the numbers of positive weight.  Of the 49 numbers the    *)
(* choices made are those of PickValues.                                     *)

GeneratorWindow == 365

GeneratedCount == 6

DefaultTopK == 6

MaxPick == 7

PickValues == (1..MaxPick) \cup {NumberMax}

\* freq.items(): calculate_frequency returns dict(sorted(counts.items()))
Items(freq) == [i \in 1..Len(Ascend(DOMAIN freq)) |-> <<Ascend(DOMAIN freq)[i], freq[Ascend(DOMAIN freq)[i]]>>]

\* [n for n in range(1, 50) if n not in hot_nums and n not in cold_nums]
NotIn(hot_nums, cold_nums, n) == n \notin Range(hot_nums) /\ n \notin Range(cold_nums)

Neutral(hot_nums, cold_nums) ==
    SelectSeq(range(1, 50), LAMBDA n : NotIn(hot_nums, cold_nums, n))

\* the weights, in tenths: [0.4] * len(hot) + [0.4] * len(neutral) + [0.2] * len(cold)
Weights(hot_nums, neutral_nums, cold_nums) ==
    [i \in 1..Len(hot_nums) |-> 4] \o [i \in 1..Len(neutral_nums) |-> 4]
        \o [i \in 1..Len(cold_nums) |-> 2]

\* a loop that leaves with one number less
Finished_early(generated) == ~(Cardinality(generated) < GeneratedCount - 1)

\* the negation of `while len(generated) < 6`
Finished(generated) == ~(Cardinality(generated) < GeneratedCount)

GeneratorLoop(game_type, hot_nums, neutral_nums, cold_nums) ==
    [op |-> "generator_partial", game_type |-> game_type, pc |-> "loop",
     hot_numbers |-> hot_nums, cold_numbers |-> cold_nums,
     all_nums |-> hot_nums \o neutral_nums \o cold_nums,
     weights |-> Weights(hot_nums, neutral_nums, cold_nums),
     generated |-> {}, generated_numbers |-> <<>>]

GeneratorOf(game_type, hot_cold) ==
    GeneratorLoop(game_type, hot_cold.hot, Neutral(hot_cold.hot, hot_cold.cold),
                  hot_cold.cold)

\* lines 381-396: the frequencies of the last 365 days, the hot and the cold
\* numbers, the list to choose from and its weights
generator_partial(db, game_type, day) ==
    GeneratorOf(game_type,
        get_hot_cold_numbers(
            Items(calculate_frequency(db, game_type, None, None,
                                      Some(GeneratorWindow), None, day)),
            compute_expected_each(count_draws(db, game_type, None, None,
                                              Some(GeneratorWindow), None, day)),
            DefaultTopK))

GeneratorPartial(game_type) ==
    /\ call.op = "none"
    /\ call' = generator_partial(draws, game_type, today)
    /\ UNCHANGED <<draws, today, now, raw, update_log>>

\* num = random.choices(all_nums, weights=weights, k=1)[0]; generated.add(num)
Choose(i) ==
    /\ call.weights[i] > 0
    /\ call.all_nums[i] \in PickValues
    /\ call' = [call EXCEPT !.generated = @ \cup {call.all_nums[i]}]

Pick ==
    /\ call.op = "generator_partial" /\ call.pc = "loop"
    /\ ~Finished(call.generated)
    /\ \E i \in 1..Len(call.all_nums) : Choose(i)
    /\ UNCHANGED <<draws, today, now, raw, update_log>>

\* generated_sorted = sorted(list(generated)), and the response is rendered
Generated ==
    /\ call.op = "generator_partial" /\ call.pc = "loop"
    /\ Finished(call.generated)
    /\ call' = [call EXCEPT !.pc = "done", !.generated_numbers = Ascend(call.generated)]
    /\ UNCHANGED <<draws, today, now, raw, update_log>>

\* the caller takes the result of an import, or the response of the generator
Taken ==
    /\ call.op = "generator_partial" => call.pc = "done"
    /\ Return

NextGenerator ==
    \/ \E lines \in SeqsUpTo(QueryUniverse, MaxLines) :
          ImportLines(lines, DefaultProvider)
    \/ Tick
    \/ \E game_type \in {"lotto", "lotto_plus"} : GeneratorPartial(game_type)
    \/ Pick
    \/ Generated
    \/ Taken

SpecGenerator == Init /\ [][NextGenerator]_vars

\* random.choices gives every number of positive weight again and again, so
\* a loop that lacks a number does not turn for ever without a new one
SpecGeneratorFair == SpecGenerator /\ WF_vars(Pick) /\ WF_vars(Generated)

-----------------------------------------------------------------------------
(* import_lines over several batches.  The loop commits when inserted      *)
(* reaches a multiple of 500; here the batch is BatchSize rows, so that a   *)
(* feed of MaxBatchLines lines spans a full batch and the rows after it.    *)

BatchSize == 2

MaxBatchLines == 3

ImportBatches(lines, game_provider) ==
    ImportCall("import_lines", lines, game_provider,
               RetLines(import_body(draws, lines, game_provider, today, BatchSize)))

NextBatches ==
    \/ \E lines \in SeqsUpTo(QueryUniverse, MaxBatchLines) :
          ImportBatches(lines, DefaultProvider)
    \/ Tick
    \/ Return

SpecBatches == Init /\ [][NextBatches]_vars

-----------------------------------------------------------------------------
(* Claims about what the importers leave in the table *)

\* the positions of the parsed lines of a call that pass validate_draw
ValidOf(c) ==
    {i \in 1..Len(ParsedOf(c)) : validate_draw(ParsedOf(c)[i], today).ok}

Stored(n) == \E r \in draws : r.draw_number = n

\* C24, as stated: after a completed import every line that parses and passes
\* validate_draw has its draw_number in the table, whatever the table held
\* before the call.
C24_ValidLinesStored ==
    (IsImport(call) /\ call.exc = "none") =>
        \A i \in ValidOf(call) : Stored(ParsedOf(call)[i].draw_number)

\* C24, amended: after a completed import every line that parses, passes
\* validate_draw and has a draw_number above the maximum the table held
\* before the call has its draw_number in the table.
C24_NewLinesStored ==
    (IsImport(call) /\ call.exc = "none") =>
        \A i \in AcceptedOf(call) : Stored(ParsedOf(call)[i].draw_number)

\* a completed import into a table that holds rows: a valid line above the
\* maximum is stored by the call, a valid line at or below it is not stored
C24_Witness ==
    /\ IsImport(call) /\ call.exc = "none"
    /\ call.before # {}
    /\ \E i \in AcceptedOf(call) :
          /\ Stored(ParsedOf(call)[i].draw_number)
          /\ \A r \in call.before : r.draw_number # ParsedOf(call)[i].draw_number
    /\ \E i \in ValidOf(call) \ AcceptedOf(call) : ~Stored(ParsedOf(call)[i].draw_number)

\* C25: after any sequence of imports no two stored draws share draw_date and
\* game_type: a draw_date has at most one "lotto" row and at most one
\* "lotto_plus" row.
C25_OnePerDateAndType ==
    \A r1, r2 \in draws :
        (r1.draw_date = r2.draw_date /\ r1.game_type = r2.game_type) => r1 = r2

\* C27: the importers only add rows: every row stored before a call is
\* stored unchanged after it, whether the call returns or raises, and the
\* maximum stored draw_number does not decrease.
C27_OnlyAdds ==
    IsImport(call) =>
        /\ call.before \subseteq draws
        /\ MaxStored(draws) >= MaxStored(call.before)

\* an import that adds a row to a table that holds one
C27_Witness ==
    /\ IsImport(call) /\ call.exc = "none"
    /\ call.before # {}
    /\ call.ret.inserted > 0
    /\ draws # call.before
    /\ MaxStored(draws) > MaxStored(call.before)

\* the parsed lines the call in progress accepts, in the order of the feed
AcceptedLine(p) ==
    /\ p.draw_number > MaxStored(call.before)
    /\ validate_draw(p, today).ok

AcceptedSeq == SelectSeq(ParsedOf(call), AcceptedLine)

DrawNumbers(rows) == {rows[i].draw_number : i \in 1..Len(rows)}

\* the rows from..to of the accepted lines can be inserted in one flush
\* into a table that holds the draw_numbers in `held`
Flushes(held, from, to) ==
    /\ \A i \in from..to : AcceptedSeq[i].draw_number \notin held
    /\ \A i, j \in from..to :
          AcceptedSeq[i].draw_number = AcceptedSeq[j].draw_number => i = j

\* the call has committed exactly its first j batches
BatchesKept(j) ==
    /\ Cardinality(draws \ call.before) = j * BatchSize
    /\ {r.draw_number : r \in draws \ call.before}
           = DrawNumbers(SubSeq(AcceptedSeq, 1, j * BatchSize))

\* C26: import_lines commits after every full batch of inserted rows and
\* once at the end.  When a commit fails, the rows of the batches committed
\* before it stay stored and the rows added since the last successful commit,
\* and no others, are dropped; the failing commit is that of the first batch
\* that cannot be flushed.  When no commit fails every accepted row is stored.
C26_BatchesCommitted ==
    IsImport(call) =>
        /\ call.before \subseteq draws
        /\ call.exc = "IntegrityError" =>
              \E j \in 0..(Len(AcceptedSeq) \div BatchSize) :
                  /\ BatchesKept(j)
                  /\ \A b \in 1..j :
                        Flushes({r.draw_number : r \in call.before}
                                    \cup DrawNumbers(SubSeq(AcceptedSeq, 1, (b - 1) * BatchSize)),
                                (b - 1) * BatchSize + 1, b * BatchSize)
                  /\ ~Flushes({r.draw_number : r \in draws},
                              j * BatchSize + 1,
                              MinOf({(j + 1) * BatchSize, Len(AcceptedSeq)}))
        /\ call.exc = "none" =>
              /\ Cardinality(draws \ call.before) = Len(AcceptedSeq)
              /\ {r.draw_number : r \in draws \ call.before} = DrawNumbers(AcceptedSeq)

\* a call whose first batch is committed and whose last commit fails: the
\* first batch is stored, the rows after it are not
C26_Witness ==
    /\ IsImport(call) /\ call.exc = "IntegrityError"
    /\ Len(AcceptedSeq) > BatchSize
    /\ Cardinality(draws \ call.before) = BatchSize
    /\ BatchesKept(1)

-----------------------------------------------------------------------------
(* Claims about analysis/visualizations.py *)

IsStreaks(c) ==
    c.op = "analyze_streaks" /\ c.exc = "none" /\ c.ret.error = "none"

Contains(c, num, i) == num \in Range(c.draws_list[i])

\* the draws from..to all contain num (present), or all omit it
RunOf(c, num, present, from, to) ==
    \A i \in from..to : Contains(c, num, i) = present

\* the length of the run of such draws that ends the sequence
TrailingRun(c, num, present) ==
    MaxOf({k \in 0..Len(c.draws_list) :
        RunOf(c, num, present, Len(c.draws_list) - k + 1, Len(c.draws_list))})

\* the length of the longest run of such draws in the sequence
LongestRun(c, num, present) ==
    MaxOf({k \in 0..Len(c.draws_list) :
        \E from \in 1..(Len(c.draws_list) - k + 1) :
            RunOf(c, num, present, from, from + k - 1)})

\* the draws are gone through in the order of their dates (the dates of a
\* frame differ): a draw comes after as many draws as have an earlier date
DateOrdered(c) ==
    /\ Len(c.draws_list) = Len(c.df)
    /\ \A i \in 1..Len(c.df) :
          c.draws_list[Cardinality({j \in 1..Len(c.df) :
                                      DateLT(c.df[j].date, c.df[i].date)}) + 1]
              = c.df[i].numbers

\* C21: for a frame of at least 5 draws analyze_streaks goes through the
\* draws in the order of their dates, and for every number exactly one of
\* current_appearance_streak and current_absence_streak is above 0 and is the
\* length of the run of draws with (without) the number that ends the
\* sequence, the other being 0; max_appearance_streak and max_absence_streak
\* are the lengths of the longest runs of draws with and without the number.
C21_Streaks ==
    IsStreaks(call) =>
        /\ Len(call.df) >= MinStreakDraws
        /\ DateOrdered(call)
        /\ \A num \in 1..call.all_numbers :
              /\ (call.streaks[num].current_appearance_streak = 0)
                     # (call.streaks[num].current_absence_streak = 0)
              /\ call.streaks[num].current_appearance_streak = TrailingRun(call, num, TRUE)
              /\ call.streaks[num].current_absence_streak = TrailingRun(call, num, FALSE)
              /\ call.streaks[num].max_appearance_streak = LongestRun(call, num, TRUE)
              /\ call.streaks[num].max_absence_streak = LongestRun(call, num, FALSE)

\* a frame given latest first, of a number that comes, stays away for two
\* draws, comes back and is in the last two draws
C21_Witness ==
    /\ IsStreaks(call)
    /\ call.df # <<>> /\ DateLT(call.df[Len(call.df)].date, call.df[1].date)
    /\ call.streaks[1].current_appearance_streak = 2
    /\ call.streaks[1].max_absence_streak = 2
    /\ call.streaks[1].max_appearance_streak = 2
    /\ call.streaks[2].current_absence_streak >= 1

\* C22: the min_correlation_threshold of the analysis_metadata that
\* calculate_number_correlations returns is the min_correlation it was called
\* with.
C22_ThresholdReported ==
    (call.op = "calculate_number_correlations" /\ call.exc = "none"
        /\ call.ret.error = "none") =>
        FloatEqual(call.ret.analysis_metadata.min_correlation_threshold,
                   call.min_correlation)

-----------------------------------------------------------------------------
(* Claims about the generator *)

GeneratorDone ==
    /\ call.op = "generator_partial" /\ call.pc = "done"
    /\ Len(call.generated_numbers) = 6
    /\ \A i \in 1..6 : call.generated_numbers[i] \in 1..49
    /\ \A i \in 1..5 : call.generated_numbers[i] < call.generated_numbers[i + 1]

\* C23: whatever the imports have stored, nothing included, a request of
\* /partials/generator comes to its end when the random choice is fair, and
\* it ends with 6 numbers of 1..49 in ascending order, no two the same.
C23_GeneratorTerminates ==
    (call.op = "generator_partial") ~> GeneratorDone

\* a request that ends on a store with draws, with hot and with cold numbers
C23_Witness ==
    /\ GeneratorDone
    /\ draws # {}
    /\ call.hot_numbers # <<>> /\ call.cold_numbers # <<>>

=============================================================================
